---- MODULE Spec2Model ----
(***************************************************************************)
(* A model of the collaborative whiteboard (khanapcalculus/nlcc):          *)
(* the useWhiteboard controller, its per-client undo/redo history and the  *)
(* Yjs document (four Y.Arrays) it shares through a y-websocket relay.     *)
(***************************************************************************)
EXTENDS Integers, Sequences, FiniteSets, TLC

(* ------------------------------------------------------------------ *)
(* Bounds of the model and constants of the program                   *)
(* ------------------------------------------------------------------ *)

\* Entity ids one client may generate.
MaxIds == 2

\* Yjs items (array elements ever inserted) one client may create.
MaxClock == 3

\* Yjs items all clients of the room may create together.
MaxRoomItems == 4

\* Yjs items the clients may create together when both edit and update.
MaxRelayItems == 3

\* Entities the remote client may insert while the other one undoes and redoes.
MaxRemoteEdits == 1

\* Calls the log of a scenario keeps.
MaxTrace == 5

\* new HistoryManager(50)
MaxHistorySize == 50

\* throttle(.., 4): the limit of the throttle, in ms.
Limit == 4

\* now - lastMouseMoveTime.current < 4: the spacing of handled moves, in ms.
MinSpacing == 4

\* this.velocityHistory.length > 5
MaxVelocityHistory == 5

\* The last millisecond of the clock.
MaxTime == 12

\* Gestures the client makes while the clock runs.
MaxGestures == 1

\* The browser tabs sharing the room; the number is the Yjs clientID order.
Clients == {1, 2}

\* doc.getArray('lines' | 'images' | 'shapes' | 'texts')
Kinds == {"lines", "images", "shapes", "texts"}

\* The keys of yViewState, the Y.Map 'viewState'; each key has its own chain
\* of items in the replica.
ViewKeys == {"x", "y"}
Types == Kinds \cup ViewKeys

\* null / undefined
Null == <<>>

\* SelectionTool.getInitialState(): nothing is selected.
InitialSelection == [selectedId |-> Null, selectedType |-> Null]

\* PanTool.getInitialState(): the stage starts at the origin.
InitialStagePos == <<0, 0>>

(* ------------------------------------------------------------------ *)
(* Entities and their JSON strings                                     *)
(* ------------------------------------------------------------------ *)

\* An entity as the controller sees it: id, the geometry fields (abstracted to
\* one value that an update overrides), and for texts the text and isEditing.
Entity(id, geom, text, isEditing) ==
    [id |-> id, geom |-> geom, text |-> text, isEditing |-> isEditing]

\* JSON.stringify(entity): the string kept in the Y.Array.
Stringify(e) == [json |-> "object", val |-> e]

\* Strings a peer that is not this program may put in a collection:
\* not JSON at all, the JSON literal null, and an object with no id.
Garbage == [json |-> "garbage", val |-> Null]
JsonNull == [json |-> "null", val |-> Null]
NoIdObject == Stringify(Entity(Null, 0, "", FALSE))

\* JSON.parse(str) throws a SyntaxError on a string that is not JSON.
ParseThrows(str) == str.json = "garbage"

\* JSON.parse(str) when it does not throw.
Parse(str) == IF str.json = "object" THEN str.val ELSE Null

\* `x => x && x.id`, the filter applied after the parse.
Truthy(x) == x # Null /\ x.id # Null

\* toArray().map(JSON.parse).filter(x => x && x.id); the caller checks
\* AnyThrows first (the map throws at the first bad string).
AnyThrows(strs) == \E i \in 1..Len(strs) : ParseThrows(strs[i])

RECURSIVE ParseFilter(_)
ParseFilter(strs) ==
    IF strs = <<>> THEN <<>>
    ELSE LET x == Parse(Head(strs))
         IN  (IF Truthy(x) THEN <<x>> ELSE <<>>) \o ParseFilter(Tail(strs))

\* array.findIndex(x => x.id === id), 0-based, -1 when absent.
FindIndex(list, id) ==
    IF \E i \in 1..Len(list) : list[i].id = id
    THEN (CHOOSE i \in 1..Len(list) :
             list[i].id = id /\ \A j \in 1..(i-1) : list[j].id # id) - 1
    ELSE -1

(* ------------------------------------------------------------------ *)
(* Numbers: the arithmetic of the stroke geometry                      *)
(* ------------------------------------------------------------------ *)

\* A JavaScript number holds a finite number of binary digits and every
\* operation rounds its result to the nearest number it can hold. Here a
\* number is an integer n that stands for n / Scale, and every operation
\* rounds to the nearest such number, ties to even.
Scale == 64

\* The nearest integer to num / den (den > 0), ties to even.
Rnd(num, den) ==
    LET q == num \div den
        r == num % den
    IN  IF 2 * r > den \/ (2 * r = den /\ q % 2 = 1) THEN q + 1 ELSE q

\* An integer literal, and a decimal literal such as 1.5 (<<3, 2>>).
Num(i) == i * Scale
Frac(f) == Rnd(f[1] * Scale, f[2])

\* a * b and a / b
FMul(a, b) == Rnd(a * b, Scale)
FDiv(a, b) == Rnd(a * Scale, b)

\* The largest integer r with r * r <= n.
RECURSIVE ISqrt(_)
ISqrt(n) ==
    IF n < 2 THEN n
    ELSE LET small == 2 * ISqrt(n \div 4)
             large == small + 1
         IN  IF large * large > n THEN small ELSE large

\* Math.sqrt(a)
FSqrt(a) ==
    LET n == a * Scale
        r == ISqrt(n)
    IN  IF n - r * r > r THEN r + 1 ELSE r

\* Math.ceil(a), an integer
Ceil(a) == -((-a) \div Scale)

\* Math.sqrt(Math.pow(bx - ax, 2) + Math.pow(by - ay, 2)); a point is <<x, y>>.
Distance(a, b) ==
    FSqrt(FMul(b[1] - a[1], b[1] - a[1]) + FMul(b[2] - a[2], b[2] - a[2]))

(* ------------------------------------------------------------------ *)
(* The stroke geometry of the pen: interpolate, decimate, smooth       *)
(* ------------------------------------------------------------------ *)

\* The flat array [x0, y0, x1, y1, ..] is the sequence of its points.
Last(points) == points[Len(points)]

\* The loops below run over the points one after the other; here the
\* iterations first..last of a loop are its first half followed by its second
\* half, which pushes the same points in the same order.
Middle(first, last) == (first + last) \div 2

\* interpolatePoints(points, maxDistance): what the iterations first..last of
\* the loop push, prev being the last point pushed before them.
RECURSIVE InterpolateRange(_, _, _, _, _)
InterpolateRange(points, first, last, prev, maxDistance) ==
    IF first = last
    THEN LET curr == points[first]
             distance == Distance(prev, curr)
             steps == Ceil(FDiv(distance, maxDistance))
         IN  IF distance > maxDistance
             THEN [step \in 1..steps |->
                     LET t == FDiv(Num(step), Num(steps))
                     IN  <<prev[1] + FMul(curr[1] - prev[1], t),
                           prev[2] + FMul(curr[2] - prev[2], t)>>]
             ELSE <<curr>>
    ELSE LET pushed == InterpolateRange(points, first, Middle(first, last), prev,
                                        maxDistance)
         IN  pushed \o InterpolateRange(points, Middle(first, last) + 1, last,
                                        Last(pushed), maxDistance)

\* interpolatePoints whose inner loop stops one step short of the position
\* it interpolates to.
interpolatePointsShortOfTarget(points, maxDistance) ==
    IF Len(points) < 2 THEN points
    ELSE LET interpolated == <<points[1]>>
                               \o InterpolateRange(points, 2, Len(points), points[1],
                                                   maxDistance)
         IN  IF Len(interpolated) > Len(points)
             THEN SubSeq(interpolated, 1, Len(interpolated) - 1)
             ELSE interpolated

interpolatePoints(points, maxDistance) ==
    IF Len(points) < 2 THEN points
    ELSE <<points[1]>> \o InterpolateRange(points, 2, Len(points), points[1], maxDistance)

\* optimizePoints(points, minDistance): what the iterations first..last of
\* the loop push, prev being the last point pushed before them.
RECURSIVE OptimizeRange(_, _, _, _, _)
OptimizeRange(points, first, last, prev, minDistance) ==
    IF first = last
    THEN IF Distance(prev, points[first]) >= minDistance THEN <<points[first]>>
         ELSE <<>>
    ELSE LET pushed == OptimizeRange(points, first, Middle(first, last), prev,
                                     minDistance)
         IN  pushed \o OptimizeRange(points, Middle(first, last) + 1, last,
                                     IF pushed = <<>> THEN prev ELSE Last(pushed),
                                     minDistance)

\* optimizePoints without the push of the last point.
optimizePointsBySpacingOnly(points, minDistance) ==
    IF Len(points) < 2 THEN points
    ELSE <<points[1]>> \o OptimizeRange(points, 2, Len(points), points[1], minDistance)

\* optimizePoints that measures each point against the point before it in
\* the input instead of the last point kept.
optimizePointsAgainstInput(points, minDistance) ==
    IF Len(points) < 2 THEN points
    ELSE LET kept == SelectSeq([i \in 1..Len(points) |-> i],
                               LAMBDA i : \/ i = 1
                                          \/ Distance(points[i - 1], points[i])
                                                >= minDistance)
             optimized == [j \in 1..Len(kept) |-> points[kept[j]]]
         IN  IF Last(points) # Last(optimized)
             THEN Append(optimized, Last(points))
             ELSE optimized

optimizePoints(points, minDistance) ==
    IF Len(points) < 2 THEN points
    ELSE LET optimized == <<points[1]>>
                            \o OptimizeRange(points, 2, Len(points), points[1],
                                             minDistance)
         IN  IF Last(points) # Last(optimized)
             THEN Append(optimized, Last(points))
             ELSE optimized

\* The quadratic Bezier point of smoothPointsAdvanced at step t of 4.
BezierPoint(prev, curr, next, t) ==
    LET control == <<FDiv(curr[1] + next[1], Num(2)), FDiv(curr[2] + next[2], Num(2))>>
        u == FDiv(Num(t), Num(4))
        u2 == FMul(u, u)
        oneMinusU == Num(1) - u
        oneMinusU2 == FMul(oneMinusU, oneMinusU)
        At(k) == FMul(oneMinusU2, prev[k])
                 + FMul(FMul(2 * oneMinusU, u), control[k])
                 + FMul(u2, curr[k])
    IN  <<At(1), At(2)>>

\* smoothPointsAdvanced(points): what the iterations first..last of the outer
\* loop push, the i-th being about the i-th point.
RECURSIVE AdvancedRange(_, _, _)
AdvancedRange(points, first, last) ==
    IF first = last
    THEN [t \in 1..5 |->
            BezierPoint(points[first - 1], points[first], points[first + 1], t - 1)]
    ELSE AdvancedRange(points, first, Middle(first, last))
           \o AdvancedRange(points, Middle(first, last) + 1, last)

smoothPointsAdvanced(points) ==
    IF Len(points) < 3 THEN points
    ELSE <<points[1]>> \o AdvancedRange(points, 2, Len(points) - 1) \o <<Last(points)>>

\* `points[i + 4] || p2x`: the coordinate k of the point two after the i-th,
\* unless it is undefined or 0, which are both falsy.
OrElse(points, i, k, p2) ==
    IF i + 2 <= Len(points) /\ points[i + 2][k] # 0 THEN points[i + 2][k] ELSE p2[k]

\* The Catmull-Rom point of smoothPoints at step t of 3.
SplinePoint(p0, p1, p2, p3, t) ==
    LET u == FDiv(Num(t), Num(3))
        u2 == FMul(u, u)
        u3 == FMul(u2, u)
        At(k) == Rnd(2 * p1[k]
                     + FMul(-p0[k] + p2[k], u)
                     + FMul(2 * p0[k] - 5 * p1[k] + 4 * p2[k] - p3[k], u2)
                     + FMul(-p0[k] + 3 * p1[k] - 3 * p2[k] + p3[k], u3), 2)
    IN  <<At(1), At(2)>>

\* smoothPoints(points, tension): what the iterations first..last of the
\* outer loop push, the i-th being about the i-th point; the tension is not
\* used by the function.
RECURSIVE SmoothRange(_, _, _)
SmoothRange(points, first, last) ==
    IF first = last
    THEN LET p2 == points[first + 1]
             p3 == <<OrElse(points, first, 1, p2), OrElse(points, first, 2, p2)>>
         IN  [t \in 1..4 |->
                SplinePoint(points[first - 1], points[first], p2, p3, t - 1)]
    ELSE SmoothRange(points, first, Middle(first, last))
           \o SmoothRange(points, Middle(first, last) + 1, last)

smoothPoints(points, tension) ==
    IF Len(points) < 3 THEN points
    ELSE <<points[1]>> \o SmoothRange(points, 2, Len(points) - 1) \o <<Last(points)>>

\* avgVelocity > 0.8 and avgVelocity > 0.3, in pixels per millisecond
HighVelocity == <<4, 5>>
MediumVelocity == <<3, 10>>

Tier(avgVelocity) ==
    IF avgVelocity > Frac(HighVelocity) THEN "high"
    ELSE IF avgVelocity > Frac(MediumVelocity) THEN "medium"
    ELSE "low"

\* The arguments of interpolatePoints and optimizePoints in each branch.
MaxDistance == [high |-> 8, medium |-> 10, low |-> 12]
MinDistance == [high |-> <<1, 1>>, medium |-> <<3, 2>>, low |-> <<2, 1>>]

\* The tension handed to smoothPoints in the medium and the low branch.
Tension == [medium |-> <<2, 5>>, low |-> <<1, 5>>]

\* The curve fit of each branch.
Smooth(tier, points) ==
    IF tier = "high" THEN smoothPointsAdvanced(points)
    ELSE smoothPoints(points, Frac(Tension[tier]))

\* `processedPoints.length > 6`: the curve is fitted to more than 3 points.
SmoothedAbove == 3

RECURSIVE Sum(_)
Sum(numbers) == IF numbers = <<>> THEN 0 ELSE numbers[1] + Sum(Tail(numbers))

\* PenTool before the first stroke, and no draft. `raw` lists the pointer
\* positions of the gesture, `samples` every velocity measured in it and
\* `committed` the points handleMouseUp pushed; tier, newPoints, interpolated
\* and optimized are the locals of the last call of PenTool.handleMouseMove.
NoStroke ==
    [points |-> <<>>, lastTimestamp |-> 0, lastPosition |-> Null,
     velocityHistory |-> <<>>, raw |-> <<>>, samples |-> <<>>, committed |-> <<>>,
     tier |-> "", newPoints |-> <<>>, interpolated |-> <<>>, optimized |-> <<>>]

\* PenTool.handleMouseDown that leaves velocityHistory as the last stroke
\* left it.
PenToolMouseDownKeepingHistory(st, point, timeDelta) ==
    [NoStroke EXCEPT !.points = <<point>>,
                     !.lastTimestamp = st.lastTimestamp + timeDelta,
                     !.lastPosition = point,
                     !.velocityHistory = st.velocityHistory,
                     !.committed = st.committed,
                     !.raw = <<point>>]

\* PenTool.handleMouseDown at the position `point`, timeDelta after the
\* last call.
PenToolMouseDown(st, point, timeDelta) ==
    [NoStroke EXCEPT !.points = <<point>>,
                     !.lastTimestamp = st.lastTimestamp + timeDelta,
                     !.lastPosition = point,
                     !.committed = st.committed,
                     !.raw = <<point>>]

\* PenTool.handleMouseMove at the position `point`, timeDelta after the
\* last call, st.points being currentLine.points.
PenToolMouseMove(st, point, timeDelta) ==
    LET currentTime == st.lastTimestamp + timeDelta
        measured == st.lastPosition # Null /\ timeDelta > 0
        velocity == IF measured
                    THEN FDiv(Distance(st.lastPosition, point), Num(timeDelta))
                    ELSE 0
        pushed == IF measured THEN Append(st.velocityHistory, velocity)
                  ELSE st.velocityHistory
        velocityHistory == IF Len(pushed) > MaxVelocityHistory THEN Tail(pushed)
                           ELSE pushed
        avgVelocity == IF Len(velocityHistory) > 0
                       THEN FDiv(Sum(velocityHistory), Num(Len(velocityHistory)))
                       ELSE 0
        tier == Tier(avgVelocity)
        newPoints == Append(st.points, point)
        interpolated == interpolatePoints(newPoints, Num(MaxDistance[tier]))
        optimized == optimizePoints(interpolated, Frac(MinDistance[tier]))
        processedPoints == IF Len(optimized) > SmoothedAbove
                           THEN Smooth(tier, optimized)
                           ELSE optimized
    IN  [st EXCEPT !.points = processedPoints,
                   !.lastTimestamp = currentTime,
                   !.lastPosition = point,
                   !.velocityHistory = velocityHistory,
                   !.raw = Append(st.raw, point),
                   !.samples = IF measured THEN Append(@, velocity) ELSE @,
                   !.tier = tier,
                   !.newPoints = newPoints,
                   !.interpolated = interpolated,
                   !.optimized = optimized]

(* ------------------------------------------------------------------ *)
(* The Yjs document: one replica                                        *)
(* ------------------------------------------------------------------ *)

\* A replica: per collection, and per key of the view map, the integrated items
\* in list order (deleted ones stay as tombstones), the ids of deleted items,
\* and what an update brought that cannot be applied yet (items whose origin is
\* missing, deletions of items not yet received).
EmptyDoc ==
    [arr |-> [k \in Types |-> <<>>], del |-> {}, pendingItems |-> {}, pendingDs |-> {}]

\* An inserted element: id = <<client, clock>>, the ids of its left and right
\* neighbours at insertion time, the collection and the string.
Item(id, origin, rightOrigin, kind, content) ==
    [id |-> id, origin |-> origin, rightOrigin |-> rightOrigin,
     kind |-> kind, content |-> content]

\* An update message: one inserted item (or none) and a delete set; the
\* websocket carries the messages of one client in the order `seq`.
Update(item, ds, from, seq) == [item |-> item, ds |-> ds, from |-> from, seq |-> seq]

ItemIds(doc) == UNION {{doc.arr[k][i].id : i \in 1..Len(doc.arr[k])} : k \in Types}

\* The state vector: the next clock expected from `client`.
StateVector(doc, client) == Cardinality({id \in ItemIds(doc) : id[1] = client})

\* Position of the item `id` in the list s (0 for null).
PosOf(s, id) == IF id = Null THEN 0 ELSE CHOOSE i \in 1..Len(s) : s[i].id = id

NotDeleted(doc, k) == SelectSeq(doc.arr[k], LAMBDA it : it.id \notin doc.del)

\* yArray.toArray()
ToArray(doc, k) ==
    LET s == NotDeleted(doc, k) IN [i \in 1..Len(s) |-> s[i].content]

\* yArray.length
YLength(doc, k) == Len(NotDeleted(doc, k))

\* Item.integrate: the YATA conflict scan from the item's left origin to its
\* right origin; the result is the position after which the item goes.
RECURSIVE ConflictScan(_, _, _, _, _, _)
ConflictScan(s, it, o, left, conflicting, beforeOrigin) ==
    LET stop == IF it.rightOrigin = Null THEN Len(s) + 1 ELSE PosOf(s, it.rightOrigin)
    IN  IF o > Len(s) \/ o = stop THEN left
        ELSE LET before2 == beforeOrigin \cup {s[o].id}
                 conf2 == conflicting \cup {s[o].id}
             IN  IF s[o].origin = it.origin
                 THEN IF s[o].id[1] < it.id[1]
                      THEN ConflictScan(s, it, o + 1, o, {}, before2)
                      ELSE IF s[o].rightOrigin = it.rightOrigin
                           THEN left
                           ELSE ConflictScan(s, it, o + 1, left, conf2, before2)
                 ELSE IF s[o].origin # Null /\ s[o].origin \in before2
                      THEN IF s[o].origin \notin conf2
                           THEN ConflictScan(s, it, o + 1, o, {}, before2)
                           ELSE ConflictScan(s, it, o + 1, left, conf2, before2)
                      ELSE left

InsertAfter(s, pos, it) == SubSeq(s, 1, pos) \o <<it>> \o SubSeq(s, pos + 1, Len(s))

\* Integration without the conflict scan: right after the left origin.
IntegrateAfterOrigin(doc, it) ==
    LET s == doc.arr[it.kind]
    IN  [doc EXCEPT !.arr[it.kind] = InsertAfter(s, PosOf(s, it.origin), it)]

\* The items of a map key that are not its rightmost: integrating an item
\* under a key deletes its left neighbour when the item is the rightmost, and
\* the item itself when it is not.
Overwritten(s) == {s[i].id : i \in 1..(Len(s) - 1)}

Integrate(doc, it) ==
    LET s == doc.arr[it.kind]
        l == PosOf(s, it.origin)
        left == ConflictScan(s, it, l + 1, l, {}, {})
        new == InsertAfter(s, left, it)
    IN  [doc EXCEPT !.arr[it.kind] = new,
                    !.del = IF it.kind \in ViewKeys THEN @ \cup Overwritten(new) ELSE @]

\* yViewState.get(key) || 0: the content of the rightmost item of the key.
ViewGet(doc, key) ==
    LET s == doc.arr[key] IN IF s = <<>> THEN 0 ELSE s[Len(s)].content

\* What syncViewState hands to setStagePos.
ViewState(doc) == <<ViewGet(doc, "x"), ViewGet(doc, "y")>>

\* An item can be integrated when it is the next struct of its client and both
\* its origins are in the store.
Ready(doc, it) ==
    /\ it.id[2] = StateVector(doc, it.id[1])
    /\ it.origin = Null \/ it.origin \in ItemIds(doc)
    /\ it.rightOrigin = Null \/ it.rightOrigin \in ItemIds(doc)

\* A struct below the state vector was already integrated: it is skipped.
Known(doc, it) == it.id[2] < StateVector(doc, it.id[1])

IdLess(a, b) == a[1] < b[1] \/ (a[1] = b[1] /\ a[2] < b[2])

\* Retry the pending structs until none is ready, then apply the pending
\* deletions whose items have arrived. (The recursion goes through a
\* one-element set so that the next replica is computed once.)
RECURSIVE Flush(_)
Flush(doc) ==
    LET known == {it \in doc.pendingItems : Known(doc, it)}
        ready == {it \in doc.pendingItems : Ready(doc, it)}
    IN  IF known # {}
        THEN CHOOSE r \in {Flush(d) : d \in {[doc EXCEPT !.pendingItems = @ \ known]}} : TRUE
        ELSE IF ready # {}
        THEN LET it == CHOOSE x \in ready : \A y \in ready : x = y \/ IdLess(x.id, y.id)
             IN  CHOOSE r \in {Flush(d) :
                               d \in {[Integrate(doc, it) EXCEPT !.pendingItems = @ \ {it}]}} :
                     TRUE
        ELSE [doc EXCEPT !.del = @ \cup (doc.pendingDs \cap ItemIds(doc)),
                         !.pendingDs = @ \ ItemIds(doc)]

\* Applying an update as a state overwrite: a delete set empties the
\* collections it touches.
ApplyUpdateClearing(doc, u) ==
    LET new == Flush([doc EXCEPT
                        !.pendingItems = IF u.item = Null THEN @ ELSE @ \cup {u.item},
                        !.pendingDs = @ \cup u.ds])
        ids(k) == {new.arr[k][i].id : i \in 1..Len(new.arr[k])}
        touched == {k \in Kinds : ids(k) \cap u.ds # {}}
    IN  [new EXCEPT !.del = @ \cup UNION {ids(k) : k \in touched}]

\* Y.applyUpdate(doc, update)
ApplyUpdate(doc, u) ==
    Flush([doc EXCEPT
             !.pendingItems = IF u.item = Null THEN @ ELSE @ \cup {u.item},
             !.pendingDs = @ \cup u.ds])

(* ------------------------------------------------------------------ *)
(* The history manager (tools/history)                                  *)
(* ------------------------------------------------------------------ *)

\* A history manager: the stack of snapshots and the cursor (1-based; 0 is the
\* empty stack). A snapshot is the four entity lists; its timestamp is left out.
EmptyHistory == [history |-> <<>>, currentIndex |-> 0]

\* saveState that keeps the redo tail and pushes behind it.
SaveStateKeepingTail(h, state) ==
    LET pushed == Append(h.history, state)
    IN  IF Len(pushed) > MaxHistorySize
        THEN [history |-> Tail(pushed), currentIndex |-> h.currentIndex]
        ELSE [history |-> pushed, currentIndex |-> h.currentIndex + 1]

\* saveState that evicts the newest of the old entries when over capacity.
SaveStateEvictingNewest(h, state) ==
    LET kept == SubSeq(h.history, 1, h.currentIndex)
    IN  IF Len(kept) + 1 > MaxHistorySize
        THEN [history |-> Append(SubSeq(kept, 1, Len(kept) - 1), state),
              currentIndex |-> h.currentIndex]
        ELSE [history |-> Append(kept, state), currentIndex |-> h.currentIndex + 1]

\* saveState(state): drop the redo tail, push, evict the oldest when over capacity.
SaveState(h, state) ==
    LET pushed == Append(SubSeq(h.history, 1, h.currentIndex), state)
    IN  IF Len(pushed) > MaxHistorySize
        THEN [history |-> Tail(pushed), currentIndex |-> h.currentIndex]
        ELSE [history |-> pushed, currentIndex |-> h.currentIndex + 1]

CanUndo(h) == h.currentIndex > 1
CanRedo(h) == h.currentIndex < Len(h.history)

\* undo() that hands out the oldest entry when there is no previous one.
UndoResultClamped(h) ==
    IF CanUndo(h) THEN h.history[h.currentIndex - 1]
    ELSE IF h.history # <<>> THEN h.history[1] ELSE Null

\* undo(): the state returned (Null when there is nothing to undo) ...
UndoResult(h) == IF CanUndo(h) THEN h.history[h.currentIndex - 1] ELSE Null
\* ... and the manager afterwards.
UndoMove(h) == IF CanUndo(h) THEN [h EXCEPT !.currentIndex = @ - 1] ELSE h

RedoResult(h) == IF CanRedo(h) THEN h.history[h.currentIndex + 1] ELSE Null
RedoMove(h) == IF CanRedo(h) THEN [h EXCEPT !.currentIndex = @ + 1] ELSE h

(* ------------------------------------------------------------------ *)
(* State                                                               *)
(* ------------------------------------------------------------------ *)

VARIABLES
    tool,               \* useState<Tool>
    isDrawing,          \* isDrawing.current
    currentLine,        \* the pen draft, or Null
    currentShape,       \* the shape draft, or Null
    eraserState,        \* eraserState.isErasing
    selection,          \* useState<SelectionState>
    lastCreatedTextId,  \* lastCreatedTextId.current
    synced,             \* syncedLines / syncedImages / syncedShapes / syncedTexts
    hist,               \* historyManager
    initTimer,          \* the startup setTimeout is still to fire
    stagePos,           \* useState of the stage position, set by syncViewState
    observers,          \* per collection, how many times its sync handler is attached
    nextId,             \* ids generated so far
    ydoc,               \* the Y.Doc replica
    connected,          \* the provider's websocket is open
    unsent,             \* updates made while disconnected
    net,                \* updates the relay holds and (re)delivers
    isUndoRedoOperation, \* isUndoRedoOperation.current
    penTracking,        \* PenTool.lastTimestamp / lastPosition / velocityHistory
    stroke,             \* the points of the pen draft and the numbers PenTool keeps
    now,                \* Date.now()
    lastMouseMoveTime,  \* lastMouseMoveTime.current
    throttle,           \* inThrottle, lastRan and the timers of the current handleMouseMove
    stale,              \* pending timers of the throttles of earlier renders
    pointerMoved,       \* the stage's pointer position has not reached a move handler yet
    trace               \* a log of what happened, kept by the scenario specifications

vars == <<tool, isDrawing, currentLine, currentShape, eraserState, selection,
          lastCreatedTextId,
          synced, hist, initTimer, stagePos, observers, nextId, ydoc, connected, unsent, net,
          isUndoRedoOperation, penTracking, stroke, now, lastMouseMoveTime, throttle, stale,
          pointerMoved, trace>>

gestureVars == <<tool, isDrawing, currentLine, currentShape, eraserState, selection,
                 penTracking, stroke>>

\* The clock and what the throttled handleMouseMove keeps between calls.
moveVars == <<now, lastMouseMoveTime, throttle, stale, pointerMoved>>

(* ------------------------------------------------------------------ *)
(* Local Y.Array operations, each its own transaction, each followed   *)
(* by the collection's observer                                        *)
(* ------------------------------------------------------------------ *)

\* The updates client c has emitted so far.
Sent(c) == Cardinality({u \in net \cup unsent[c] : u.from = c})

\* What a handler works on: the replica, the derived lists it republishes, the
\* updates its transactions emit and how many went before them, whether the
\* observers are attached, whether an exception has ended the handler, and the
\* eraser's hasChanges.
Local(c) ==
    [client |-> c, doc |-> ydoc[c], synced |-> synced[c], out |-> {},
     sent |-> Sent(c), observed |-> TRUE, thrown |-> FALSE, hasChanges |-> FALSE]

\* syncLines / syncImages / syncShapes / syncTexts: a throwing parse is caught
\* and the derived list keeps its old value.
Observer(st, k) ==
    IF ~st.observed \/ AnyThrows(ToArray(st.doc, k)) THEN st
    ELSE [st EXCEPT !.synced[k] = ParseFilter(ToArray(st.doc, k))]

\* typeListInsertGenericsAfter: the new item takes the next clock of the client
\* and is placed right after position `left` of the item list.
InsertLocal(st, k, left, str) ==
    LET s == st.doc.arr[k]
        it == Item(<<st.client, StateVector(st.doc, st.client)>>,
                   IF left = 0 THEN Null ELSE s[left].id,
                   IF left < Len(s) THEN s[left + 1].id ELSE Null,
                   k, str)
    IN  Observer([st EXCEPT !.doc.arr[k] = InsertAfter(s, left, it),
                            !.out = @ \cup {Update(it, {}, st.client,
                                                   st.sent + Cardinality(st.out))}], k)

\* yViewState.set(key, value): the new item goes right of the key's current
\* item, which it deletes; the transaction's update carries both.
YMapSet(st, key, value) ==
    LET s == st.doc.arr[key]
        it == Item(<<st.client, StateVector(st.doc, st.client)>>,
                   IF s = <<>> THEN Null ELSE s[Len(s)].id, Null, key, value)
        gone == IF s = <<>> THEN {} ELSE {s[Len(s)].id}
    IN  [st EXCEPT !.doc.arr[key] = Append(s, it),
                   !.doc.del = @ \cup gone,
                   !.out = @ \cup {Update(it, gone, st.client,
                                          st.sent + Cardinality(st.out))}]

\* Position in the item list of the n-th element that is not deleted.
NthLive(doc, k, n) == PosOf(doc.arr[k], NotDeleted(doc, k)[n].id)

\* yArray.push([str]): after the last item of the list, tombstones included.
YPush(st, k, str) ==
    IF st.thrown THEN st ELSE InsertLocal(st, k, Len(st.doc.arr[k]), str)

\* yArray.insert(index, [str]): throws when index > length.
YInsert(st, k, index, str) ==
    IF st.thrown THEN st
    ELSE IF index < 0 \/ index > YLength(st.doc, k) THEN [st EXCEPT !.thrown = TRUE]
    ELSE InsertLocal(st, k, IF index = 0 THEN 0 ELSE NthLive(st.doc, k, index), str)

\* yArray.delete(index, length): deletes what is in range, then throws when the
\* range exceeds the array.
YDelete(st, k, index, length) ==
    IF st.thrown \/ length = 0 THEN st
    ELSE LET live == NotDeleted(st.doc, k)
             last == IF index + length > Len(live) THEN Len(live) ELSE index + length
             gone == {live[i].id : i \in (index + 1)..last}
             st2 == [st EXCEPT !.doc.del = @ \cup gone,
                               !.out = IF gone = {} THEN @
                                       ELSE @ \cup {Update(Null, gone, st.client,
                                                           st.sent + Cardinality(st.out))},
                               !.thrown = index < 0 \/ index + length > Len(live)]
         IN  IF gone = {} THEN st2 ELSE Observer(st2, k)

\* list.forEach(x => yArray.push([JSON.stringify(x)]))
RECURSIVE PushAll(_, _, _)
PushAll(st, k, list) ==
    IF list = <<>> THEN st
    ELSE PushAll(YPush(st, k, Stringify(Head(list))), k, Tail(list))

(* ------------------------------------------------------------------ *)
(* Pieces shared by the handlers                                       *)
(* ------------------------------------------------------------------ *)

\* The provider sends each update when the socket is open; what is made while
\* it is closed goes out with the sync step that follows the reconnect.
Broadcast(c, st) ==
    IF connected[c]
    THEN net' = net \cup st.out /\ UNCHANGED unsent
    ELSE unsent' = [unsent EXCEPT ![c] = @ \cup st.out] /\ UNCHANGED net

\* The replica and the derived lists a handler leaves behind.
Store(c, st) ==
    /\ ydoc' = [ydoc EXCEPT ![c] = st.doc]
    /\ synced' = [synced EXCEPT ![c] = st.synced]
    /\ Broadcast(c, st)

\* saveToHistory() whose earlier snapshot is the live lists themselves: the
\* entry at the cursor has followed them when the next one is pushed.
SaveToHistoryShared(h, flag, lists) ==
    IF flag THEN h
    ELSE IF h.currentIndex >= 1
         THEN SaveState([h EXCEPT !.history[h.currentIndex] = lists], lists)
         ELSE SaveState(h, lists)

\* saveToHistory() of the render the handler was created in: the snapshot is
\* built from that render's syncedLines/Images/Shapes/Texts.
SaveToHistory(h, flag, lists) == IF flag THEN h ELSE SaveState(h, lists)

\* The next clock of client c, and room for n more items.
Clock(c) == StateVector(ydoc[c], c)
RoomItems == Clock(1) + Clock(2)
Room(c, n) == Clock(c) + n <= MaxClock /\ RoomItems + n <= MaxRoomItems

\* PenTool.generateUniqueId and its siblings: an id never produced before.
FreshId(c) == <<c, nextId[c]>>
CanGenerate(c) == nextId[c] < MaxIds
AllIds == {<<c, n>> : c \in Clients, n \in 0..MaxIds}

(* ------------------------------------------------------------------ *)
(* The throttle around handleMouseMove, and the renders that remake it *)
(* ------------------------------------------------------------------ *)

\* throttle(func, limit) just called: inThrottle, lastFunc and lastRan are
\* undefined (Unset, a time that is no time); `reset` is the pending setTimeout(() => inThrottle = false) and
\* lastFunc the pending deferred call, each the time it is due.
Unset == -1

NewThrottle == [inThrottle |-> FALSE, lastRan |-> Unset, reset |-> Unset, lastFunc |-> Unset]

\* What the callback made in a render closes over: the useCallback dependencies
\* tool, currentLine, currentShape and eraserState of that render.
Closure(c) ==
    [tool |-> tool[c], line |-> currentLine[c], shape |-> currentShape[c],
     erasing |-> eraserState[c]]

\* A render after a dependency changed: useCallback calls throttle again, so
\* handleMouseMove is a new throttle; the deferred call of the old one (th, the
\* old throttle as the handler left it) stays scheduled with the old closure.
\* `fired` are the timers of earlier renders that have just run.
Rerendered(c, th, fired) ==
    /\ throttle' = [throttle EXCEPT ![c] = NewThrottle]
    /\ stale' = [stale EXCEPT
                   ![c] = (@ \ fired) \cup
                          (IF th.lastFunc = Unset THEN {}
                           ELSE {[due |-> th.lastFunc, lastRan |-> th.lastRan,
                                  closure |-> Closure(c)]})]

\* The render that follows a handler which is not the move handler.
Rerender(c) ==
    /\ Rerendered(c, throttle[c], {})
    /\ UNCHANGED <<now, lastMouseMoveTime>>

\* PenTool.handleMouseDown with a position: the tracking variables are reset.
TrackStart == [lastTimestamp |-> now, lastPosition |-> TRUE, velocityHistory |-> 0]

\* PenTool.handleMouseMove with a position: a velocity is recorded when a last
\* position exists and time has passed; the history keeps the last five.
TrackMove(t) ==
    [lastTimestamp |-> now, lastPosition |-> TRUE,
     velocityHistory |-> IF t.lastPosition /\ now - t.lastTimestamp > 0
                         THEN (IF t.velocityHistory < MaxVelocityHistory
                               THEN t.velocityHistory + 1 ELSE MaxVelocityHistory)
                         ELSE t.velocityHistory]

\* PenTool.handleMouseMove(e, currentLine, stagePos): without a pointer
\* position the line is returned as it is, else the point is appended (the
\* draft then has two coordinate pairs or more).
PenMove(line, hasPos) == IF hasPos THEN [line EXCEPT !.pairs = 2] ELSE line

\* ShapeTool.updateDrawing(currentShape, e, stagePos)
ShapeMove(shape, hasPos) == IF hasPos THEN [shape EXCEPT !.extent = 1] ELSE shape

(* ------------------------------------------------------------------ *)
(* Handlers of useWhiteboard                                           *)
(* ------------------------------------------------------------------ *)

\* setTool(t)
SetTool(c, t) ==
    /\ tool[c] # t
    /\ tool' = [tool EXCEPT ![c] = t]
    /\ Rerender(c)
    /\ UNCHANGED <<selection, isDrawing, currentLine, currentShape, eraserState,
                   lastCreatedTextId, synced, hist, initTimer, stagePos, observers, nextId, ydoc, connected,
                   unsent, net, isUndoRedoOperation, penTracking, stroke, pointerMoved>>

\* handleMouseDown, tool === 'select': SelectionTool.handleSelection hands the
\* new selection to setSelection, the one entity the pointer is on (its id and
\* kind) or nothing on the background; the handler returns before isDrawing.
MouseDownSelect(c, k, id) ==
    /\ tool[c] = "select"
    /\ selection' = [selection EXCEPT
                       ![c] = IF FindIndex(synced[c][k], id) >= 0
                              THEN [selectedId |-> id, selectedType |-> k]
                              ELSE InitialSelection]
    /\ UNCHANGED <<tool, isDrawing, currentLine, currentShape, eraserState, penTracking, stroke,
                   moveVars, lastCreatedTextId, synced, hist, initTimer, stagePos, observers, nextId, ydoc,
                   connected, unsent, net, isUndoRedoOperation>>

\* handleMouseDown, tool === 'text', pointer position resolved.
MouseDownText(c) ==
    /\ tool[c] = "text"
    /\ CanGenerate(c) /\ Room(c, 1)
    /\ LET newText == Entity(FreshId(c), 0, "", TRUE)
           st == YPush(Local(c), "texts", Stringify(newText))
       IN  /\ lastCreatedTextId' = [lastCreatedTextId EXCEPT ![c] = newText.id]
           /\ Store(c, st)
           /\ hist' = [hist EXCEPT
                         ![c] = SaveToHistory(@, isUndoRedoOperation[c], synced[c])]
    /\ nextId' = [nextId EXCEPT ![c] = @ + 1]
    /\ UNCHANGED <<gestureVars, moveVars, initTimer, stagePos, observers, connected, isUndoRedoOperation>>

\* handleMouseDown, tool === 'eraser'.
MouseDownEraser(c) ==
    /\ tool[c] = "eraser"
    /\ eraserState' = [eraserState EXCEPT ![c] = TRUE]
    /\ isDrawing' = [isDrawing EXCEPT ![c] = TRUE]
    /\ Rerender(c)
    /\ pointerMoved' = [pointerMoved EXCEPT ![c] = FALSE]
    /\ UNCHANGED <<tool, selection, currentLine, currentShape, lastCreatedTextId, synced, hist, initTimer, stagePos, observers, nextId, ydoc, connected, unsent, net,
                   isUndoRedoOperation, penTracking, stroke>>

\* handleMouseDown of the drawing tools that pushes the new pen draft to the
\* lines collection right away.
MouseDownDrawSyncing(c, hasPos) ==
    /\ tool[c] \in {"pen", "rectangle"}
    /\ ~isDrawing[c]
    /\ hasPos => CanGenerate(c)
    /\ isDrawing' = [isDrawing EXCEPT ![c] = TRUE]
    /\ currentLine' = IF tool[c] = "pen" /\ hasPos
                      THEN [currentLine EXCEPT ![c] = [id |-> FreshId(c), pairs |-> 1]]
                      ELSE currentLine
    /\ currentShape' = IF tool[c] = "rectangle" /\ hasPos
                       THEN [currentShape EXCEPT ![c] = [id |-> FreshId(c), extent |-> 0]]
                       ELSE currentShape
    /\ nextId' = IF hasPos THEN [nextId EXCEPT ![c] = @ + 1] ELSE nextId
    /\ penTracking' = IF tool[c] = "pen" /\ hasPos
                      THEN [penTracking EXCEPT ![c] = TrackStart]
                      ELSE penTracking
    /\ IF tool[c] = "pen" /\ hasPos
       THEN Store(c, YPush(Local(c), "lines", Stringify(Entity(FreshId(c), 1, "", FALSE))))
       ELSE UNCHANGED <<ydoc, synced, net, unsent>>
    /\ pointerMoved' = IF hasPos THEN [pointerMoved EXCEPT ![c] = FALSE] ELSE pointerMoved
    /\ IF hasPos THEN Rerender(c) ELSE UNCHANGED <<now, lastMouseMoveTime, throttle, stale>>
    /\ UNCHANGED <<tool, selection, eraserState, lastCreatedTextId, hist, stroke,
                   initTimer, stagePos, observers, connected, isUndoRedoOperation>>

\* handleMouseDown, the drawing tools; hasPos: the pointer position resolves.
MouseDownDraw(c, hasPos) ==
    /\ tool[c] \in {"pen", "rectangle"}
    /\ ~isDrawing[c]
    /\ hasPos => CanGenerate(c)
    /\ isDrawing' = [isDrawing EXCEPT ![c] = TRUE]
    /\ currentLine' = IF tool[c] = "pen" /\ hasPos
                      THEN [currentLine EXCEPT ![c] = [id |-> FreshId(c), pairs |-> 1]]
                      ELSE currentLine
    /\ currentShape' = IF tool[c] = "rectangle" /\ hasPos
                       THEN [currentShape EXCEPT ![c] = [id |-> FreshId(c), extent |-> 0]]
                       ELSE currentShape
    /\ nextId' = IF hasPos THEN [nextId EXCEPT ![c] = @ + 1] ELSE nextId
    /\ penTracking' = IF tool[c] = "pen" /\ hasPos
                      THEN [penTracking EXCEPT ![c] = TrackStart]
                      ELSE penTracking
    /\ UNCHANGED stroke
    /\ pointerMoved' = IF hasPos THEN [pointerMoved EXCEPT ![c] = FALSE] ELSE pointerMoved
    /\ IF hasPos THEN Rerender(c) ELSE UNCHANGED <<now, lastMouseMoveTime, throttle, stale>>
    /\ UNCHANGED <<tool, selection, eraserState, lastCreatedTextId, synced, hist,
                   initTimer, stagePos, observers, ydoc, connected, unsent, net, isUndoRedoOperation>>

\* handleMouseMove, tool === 'pen' && currentLine, to a position away from the
\* draft's last point: PenTool.handleMouseMove appends the point. This is a
\* move that comes through the throttle long after the last one, in the
\* specifications where the clock stands still.
MouseMovePen(c) ==
    /\ isDrawing[c]
    /\ tool[c] = "pen" /\ currentLine[c] # Null /\ currentLine[c].pairs = 1
    /\ currentLine' = [currentLine EXCEPT ![c] = PenMove(@, TRUE)]
    /\ penTracking' = [penTracking EXCEPT ![c] = TrackMove(@)]
    /\ UNCHANGED stroke
    /\ Rerender(c)
    /\ UNCHANGED <<tool, selection, isDrawing, currentShape, eraserState, lastCreatedTextId, synced,
                   hist, initTimer, stagePos, observers, nextId, ydoc, connected, unsent, net,
                   isUndoRedoOperation, pointerMoved>>

\* The pointer positions, in pixels, and the times between two pointer
\* events, in milliseconds, of the strokes drawn: a jitter of a pixel, a gap
\* that interpolation fills, a diagonal, and the origin, whose coordinates
\* are 0; a fast and a slow hand.
Positions == {<<0, 0>>, <<1, 1>>, <<14, 1>>, <<24, 32>>}
TimeDeltas == {8, 100}
SlowTimeDelta == 100
MaxMoves == 2
RawPoints == 5

Pixel(position) == <<Num(position[1]), Num(position[2])>>

\* handleMouseDown, tool === 'pen', as far as the points of the draft go:
\* the first stroke after the page has loaded starts at `position`.
PenDown(c, position) ==
    /\ stroke[c] = NoStroke
    /\ stroke' = [stroke EXCEPT ![c] = PenToolMouseDown(@, Pixel(position), 0)]
    /\ UNCHANGED <<tool, isDrawing, currentLine, currentShape, eraserState, selection,
                   lastCreatedTextId, synced, hist, initTimer, stagePos, observers, nextId, ydoc,
                   connected, unsent, net, isUndoRedoOperation, penTracking, now,
                   lastMouseMoveTime, throttle, stale, pointerMoved, trace>>

\* handleMouseMove, tool === 'pen' && currentLine, as far as the points of
\* the draft go: the pointer is at `position`, timeDelta after the last event.
PenMoveTo(c, position, timeDelta) ==
    /\ stroke[c].points # <<>>
    /\ stroke' = [stroke EXCEPT ![c] = PenToolMouseMove(@, Pixel(position), timeDelta)]
    /\ UNCHANGED <<tool, isDrawing, currentLine, currentShape, eraserState, selection,
                   lastCreatedTextId, synced, hist, initTimer, stagePos, observers, nextId, ydoc,
                   connected, unsent, net, isUndoRedoOperation, penTracking, now,
                   lastMouseMoveTime, throttle, stale, pointerMoved, trace>>

\* handleMouseUp, tool === 'pen' && currentLine, as far as the points of the
\* draft go: a draft of at least two points is pushed, and the draft is gone.
PenUp(c) ==
    /\ stroke[c].points # <<>>
    /\ stroke' = [stroke EXCEPT
                    ![c].committed = IF Len(stroke[c].points) >= 2
                                     THEN stroke[c].points ELSE <<>>,
                    ![c].points = <<>>]
    /\ UNCHANGED <<tool, isDrawing, currentLine, currentShape, eraserState, selection,
                   lastCreatedTextId, synced, hist, initTimer, stagePos, observers, nextId, ydoc,
                   connected, unsent, net, isUndoRedoOperation, penTracking, now,
                   lastMouseMoveTime, throttle, stale, pointerMoved, trace>>

\* handleMouseDown, tool === 'pen', as far as the points of the draft go: a
\* later stroke starts at `position`, timeDelta after the last pen event.
PenDownAgain(c, position, timeDelta) ==
    /\ stroke[c] # NoStroke
    /\ stroke[c].points = <<>>
    /\ stroke' = [stroke EXCEPT ![c] = PenToolMouseDown(@, Pixel(position), timeDelta)]
    /\ UNCHANGED <<tool, isDrawing, currentLine, currentShape, eraserState, selection,
                   lastCreatedTextId, synced, hist, initTimer, stagePos, observers, nextId, ydoc,
                   connected, unsent, net, isUndoRedoOperation, penTracking, now,
                   lastMouseMoveTime, throttle, stale, pointerMoved, trace>>

\* handleMouseMove, a shape tool && currentShape: the draft takes an extent.
MouseMoveShape(c) ==
    /\ isDrawing[c]
    /\ tool[c] = "rectangle" /\ currentShape[c] # Null /\ currentShape[c].extent = 0
    /\ currentShape' = [currentShape EXCEPT ![c] = ShapeMove(@, TRUE)]
    /\ Rerender(c)
    /\ UNCHANGED <<tool, selection, isDrawing, currentLine, eraserState, lastCreatedTextId, synced,
                   hist, initTimer, stagePos, observers, nextId, ydoc, connected, unsent, net,
                   isUndoRedoOperation, penTracking, stroke, pointerMoved>>

\* shouldSyncLine answering true for every draft.
ShouldSyncAnyLine(line) == TRUE

\* PenTool.shouldSyncLine / ShapeTool.shouldSyncShape
ShouldSyncLine(line) == line.pairs >= 2
ShouldSyncShape(shape) == shape.extent # 0

\* handleMouseUp, tool === 'pen' && currentLine
MouseUpPen(c) ==
    /\ isDrawing[c] /\ tool[c] = "pen" /\ currentLine[c] # Null
    /\ ShouldSyncLine(currentLine[c]) => Room(c, 1)
    /\ isDrawing' = [isDrawing EXCEPT ![c] = FALSE]
    /\ IF ShouldSyncLine(currentLine[c])
       THEN LET line == Entity(currentLine[c].id, currentLine[c].pairs, "", FALSE)
            IN  /\ Store(c, YPush(Local(c), "lines", Stringify(line)))
                /\ hist' = [hist EXCEPT
                              ![c] = SaveToHistory(@, isUndoRedoOperation[c], synced[c])]
       ELSE UNCHANGED <<ydoc, synced, net, unsent, hist>>
    /\ currentLine' = [currentLine EXCEPT ![c] = Null]
    /\ Rerender(c)
    /\ UNCHANGED <<tool, selection, currentShape, eraserState, lastCreatedTextId, initTimer, stagePos, observers, nextId, connected, isUndoRedoOperation, penTracking, stroke, pointerMoved>>

\* handleMouseUp, a shape tool && currentShape
MouseUpShape(c) ==
    /\ isDrawing[c] /\ tool[c] = "rectangle" /\ currentShape[c] # Null
    /\ ShouldSyncShape(currentShape[c]) => Room(c, 1)
    /\ isDrawing' = [isDrawing EXCEPT ![c] = FALSE]
    /\ IF ShouldSyncShape(currentShape[c])
       THEN LET shape == Entity(currentShape[c].id, currentShape[c].extent, "", FALSE)
            IN  /\ Store(c, YPush(Local(c), "shapes", Stringify(shape)))
                /\ hist' = [hist EXCEPT
                              ![c] = SaveToHistory(@, isUndoRedoOperation[c], synced[c])]
       ELSE UNCHANGED <<ydoc, synced, net, unsent, hist>>
    /\ currentShape' = [currentShape EXCEPT ![c] = Null]
    /\ Rerender(c)
    /\ UNCHANGED <<tool, selection, currentLine, eraserState, lastCreatedTextId, initTimer, stagePos, observers, nextId, connected, isUndoRedoOperation, penTracking, stroke, pointerMoved>>

\* handleDragEnd, tool === 'pan' && !isDrawing.current: PanTool.handleDragEnd
\* hands the position the stage was dragged to to the callback, which sets the
\* two keys of the view map one after the other, each set a transaction of its
\* own followed by syncViewState.
HandleDragEnd(c, x, y) ==
    /\ tool[c] = "pan"
    /\ ~isDrawing[c]
    /\ Room(c, 2)
    /\ \E st \in {YMapSet(YMapSet(Local(c), "x", x), "y", y)} :
          /\ ydoc' = [ydoc EXCEPT ![c] = st.doc]
          /\ Broadcast(c, st)
          /\ stagePos' = [stagePos EXCEPT ![c] = ViewState(st.doc)]
    /\ Rerender(c)
    /\ UNCHANGED <<tool, selection, isDrawing, currentLine, currentShape, eraserState,
                   lastCreatedTextId, synced, hist, initTimer, observers, nextId, connected,
                   isUndoRedoOperation, penTracking, stroke, pointerMoved>>

\* handleMouseUp with nothing to finish: only isDrawing is reset.
MouseUpIdle(c) ==
    /\ isDrawing[c]
    /\ ~(tool[c] = "pen" /\ currentLine[c] # Null)
    /\ ~(tool[c] = "rectangle" /\ currentShape[c] # Null)
    /\ ~(tool[c] = "eraser" /\ eraserState[c])
    /\ isDrawing' = [isDrawing EXCEPT ![c] = FALSE]
    /\ UNCHANGED <<tool, selection, currentLine, currentShape, eraserState, lastCreatedTextId,
                   synced, hist, initTimer, stagePos, observers, nextId, ydoc, connected,
                   unsent, net, isUndoRedoOperation, penTracking, stroke, moveVars>>

\* The body of the throttled callback, run with the closure cl of the render
\* that made it: nothing while no gesture is in progress or less than 4 ms
\* after the last move that came this far; else the move handler of the
\* closure's tool runs on the closure's draft and its result becomes the
\* draft. `moved` is what stays of pointerMoved when no tool handler runs. The
\* log keeps the time of every call of a tool's move handler.
\* The callback without the check against lastMouseMoveTime.current.
PassesUnspaced(c) == isDrawing[c]

Passes(c) == isDrawing[c] /\ now - lastMouseMoveTime[c] >= MinSpacing

Branch(cl) ==
    IF cl.tool = "pen" /\ cl.line # Null THEN "pen"
    ELSE IF cl.tool = "rectangle" /\ cl.shape # Null THEN "shape"
    ELSE IF cl.tool = "eraser" /\ cl.erasing THEN "eraser"
    ELSE "none"

Handles(c, cl) == Passes(c) /\ Branch(cl) # "none"

HandleMouseMove(c, cl, hasPos, moved) ==
    /\ lastMouseMoveTime' = IF Passes(c) THEN [lastMouseMoveTime EXCEPT ![c] = now]
                            ELSE lastMouseMoveTime
    /\ currentLine' = IF Passes(c) /\ Branch(cl) = "pen"
                      THEN [currentLine EXCEPT ![c] = PenMove(cl.line, hasPos)]
                      ELSE currentLine
    /\ penTracking' = IF Passes(c) /\ Branch(cl) = "pen" /\ hasPos
                      THEN [penTracking EXCEPT ![c] = TrackMove(@)]
                      ELSE penTracking
    /\ UNCHANGED stroke
    /\ currentShape' = IF Passes(c) /\ Branch(cl) = "shape"
                       THEN [currentShape EXCEPT ![c] = ShapeMove(cl.shape, hasPos)]
                       ELSE currentShape
    /\ eraserState' = IF Passes(c) /\ Branch(cl) = "eraser"
                      THEN [eraserState EXCEPT ![c] = cl.erasing]
                      ELSE eraserState
    /\ pointerMoved' = [pointerMoved EXCEPT ![c] = IF Handles(c, cl) THEN FALSE ELSE moved]
    /\ trace' = IF Handles(c, cl) THEN Append(trace, now) ELSE trace

\* The tool handler ran and set a state that is a new object: a render follows.
\* Without a pointer position the pen and shape handlers return the draft they
\* were given, which is no change when it is the draft of this render.
Rendered(c, cl, hasPos) ==
    /\ Handles(c, cl)
    /\ ~(Branch(cl) = "pen" /\ ~hasPos /\ cl.line = currentLine[c])
    /\ ~(Branch(cl) = "shape" /\ ~hasPos /\ cl.shape = currentShape[c])

\* The throttle after a call, whether handleMouseMove was remade or not.
AfterCall(c, cl, hasPos, th, fired) ==
    IF Rendered(c, cl, hasPos)
    THEN Rerendered(c, th, fired)
    ELSE /\ throttle' = [throttle EXCEPT ![c] = th]
         /\ stale' = [stale EXCEPT ![c] = @ \ fired]

\* A mousemove / touchmove on the stage: the throttled handleMouseMove is
\* called. Not in the throttle: the callback runs at once and a timer will
\* end the throttle. In the throttle: the deferred call is replaced by one
\* due `limit` after lastRan.
MouseMove(c, hasPos) ==
    /\ now + Limit <= MaxTime
    /\ LET th == throttle[c]
       IN  IF ~th.inThrottle
           THEN /\ HandleMouseMove(c, Closure(c), hasPos, TRUE)
                /\ AfterCall(c, Closure(c), hasPos,
                             [th EXCEPT !.lastRan = now, !.inThrottle = TRUE,
                                        !.reset = now + Limit], {})
           ELSE /\ throttle' = [throttle EXCEPT
                                  ![c].lastFunc = IF th.lastRan + Limit > now
                                                  THEN th.lastRan + Limit ELSE now]
                /\ pointerMoved' = [pointerMoved EXCEPT ![c] = TRUE]
                /\ UNCHANGED <<lastMouseMoveTime, currentLine, currentShape, eraserState,
                               penTracking, stroke, stale, trace>>
    /\ UNCHANGED <<tool, selection, isDrawing, lastCreatedTextId, synced, hist, initTimer, stagePos, observers, nextId,
                   ydoc, connected, unsent, net, isUndoRedoOperation, now>>

\* setTimeout(() => inThrottle = false, limit) fires.
ThrottleReset(c) ==
    /\ throttle[c].reset # Unset /\ now >= throttle[c].reset
    /\ throttle' = [throttle EXCEPT ![c].inThrottle = FALSE, ![c].reset = Unset]
    /\ UNCHANGED <<gestureVars, lastCreatedTextId, synced, hist, initTimer, stagePos, observers, nextId, ydoc,
                   connected, unsent, net, isUndoRedoOperation, now, lastMouseMoveTime,
                   stale, pointerMoved, trace>>

\* The deferred call of the current handleMouseMove fires: the callback runs
\* when `limit` has passed since lastRan.
ThrottleCall(c, hasPos) ==
    /\ throttle[c].lastFunc # Unset /\ now >= throttle[c].lastFunc
    /\ LET th == [throttle[c] EXCEPT !.lastFunc = Unset]
       IN  IF now - th.lastRan >= Limit
           THEN /\ HandleMouseMove(c, Closure(c), hasPos, pointerMoved[c])
                /\ AfterCall(c, Closure(c), hasPos, [th EXCEPT !.lastRan = now], {})
           ELSE /\ throttle' = [throttle EXCEPT ![c] = th]
                /\ UNCHANGED <<lastMouseMoveTime, currentLine, currentShape, eraserState,
                               penTracking, stroke, stale, pointerMoved, trace>>
    /\ UNCHANGED <<tool, selection, isDrawing, lastCreatedTextId, synced, hist, initTimer, stagePos, observers, nextId,
                   ydoc, connected, unsent, net, isUndoRedoOperation, now>>

\* The deferred call of the handleMouseMove of an earlier render fires: the
\* callback runs with the tool and the draft of that render.
StaleCall(c, tm, hasPos) ==
    /\ tm \in stale[c] /\ now >= tm.due
    /\ IF now - tm.lastRan >= Limit
       THEN /\ HandleMouseMove(c, tm.closure, hasPos, pointerMoved[c])
            /\ AfterCall(c, tm.closure, hasPos, throttle[c], {tm})
       ELSE /\ stale' = [stale EXCEPT ![c] = @ \ {tm}]
            /\ UNCHANGED <<lastMouseMoveTime, currentLine, currentShape, eraserState,
                           penTracking, stroke, throttle, pointerMoved, trace>>
    /\ UNCHANGED <<tool, selection, isDrawing, lastCreatedTextId, synced, hist, initTimer, stagePos, observers, nextId,
                   ydoc, connected, unsent, net, isUndoRedoOperation, now>>

\* A millisecond passes.
Tick ==
    /\ now < MaxTime
    /\ now' = now + 1
    /\ UNCHANGED <<gestureVars, lastCreatedTextId, synced, hist, initTimer, stagePos, observers, nextId, ydoc,
                   connected, unsent, net, isUndoRedoOperation, lastMouseMoveTime,
                   throttle, stale, pointerMoved, trace>>

\* EraserTool.checkCollisions: per collection, the ids of the entities of the
\* derived list that the eraser path hits, in list order. The path and the
\* boxes are left out: `hits` is the set of ids the path runs through.
ToDelete(list, hits) ==
    LET hit == SelectSeq(list, LAMBDA e : e.id \in hits)
    IN  [i \in 1..Len(hit) |-> hit[i].id]

\* collisions.xToDelete.forEach(id => { index = syncedX.findIndex(..);
\*     if (index !== -1) { yX.delete(index, 1); hasChanges = true } })
RECURSIVE EraseEach(_, _, _, _)
EraseEach(st, k, ids, list) ==
    IF ids = <<>> \/ st.thrown THEN st
    ELSE LET index == FindIndex(list, Head(ids))
             d == IF index # -1 THEN YDelete(st, k, index, 1) ELSE st
             next == IF index # -1 /\ ~d.thrown THEN [d EXCEPT !.hasChanges = TRUE] ELSE d
         IN  EraseEach(next, k, Tail(ids), list)

\* The four forEach loops of handleMouseUp, in source order.
EraseAll(c, hits) ==
    LET l == EraseEach(Local(c), "lines", ToDelete(synced[c]["lines"], hits),
                       synced[c]["lines"])
        s == EraseEach(l, "shapes", ToDelete(synced[c]["shapes"], hits),
                       synced[c]["shapes"])
        i == EraseEach(s, "images", ToDelete(synced[c]["images"], hits),
                       synced[c]["images"])
    IN  EraseEach(i, "texts", ToDelete(synced[c]["texts"], hits), synced[c]["texts"])

SyncedIds(c) ==
    UNION {{synced[c][k][i].id : i \in 1..Len(synced[c][k])} : k \in Kinds}

\* handleMouseUp, tool === 'eraser' && eraserState.isErasing
MouseUpEraser(c, hits) ==
    /\ isDrawing[c] /\ tool[c] = "eraser" /\ eraserState[c]
    /\ isDrawing' = [isDrawing EXCEPT ![c] = FALSE]
    /\ eraserState' = [eraserState EXCEPT ![c] = FALSE]
    /\ LET st == EraseAll(c, hits)
       IN  /\ Store(c, st)
           /\ hist' = [hist EXCEPT
                         ![c] = IF st.hasChanges /\ ~st.thrown
                                THEN SaveToHistory(@, isUndoRedoOperation[c], synced[c])
                                ELSE @]
    /\ Rerender(c)
    /\ UNCHANGED <<tool, selection, currentLine, currentShape, lastCreatedTextId, initTimer, stagePos, observers, nextId, connected, isUndoRedoOperation, penTracking, stroke, pointerMoved>>

\* handleImageUpload: the callback handed to ImageTool.handleImageUpload,
\* yImages.push([JSON.stringify(image)]); saveToHistory()
ImageUpload(c) ==
    /\ CanGenerate(c) /\ Room(c, 1)
    /\ LET image == Entity(FreshId(c), 0, "", FALSE)
       IN  Store(c, YPush(Local(c), "images", Stringify(image)))
    /\ hist' = [hist EXCEPT ![c] = SaveToHistory(@, isUndoRedoOperation[c], synced[c])]
    /\ nextId' = [nextId EXCEPT ![c] = @ + 1]
    /\ UNCHANGED <<gestureVars, moveVars, lastCreatedTextId, initTimer, stagePos, observers, connected,
                   isUndoRedoOperation>>

\* { ...syncedX[index], ...updates }, then delete(index, 1) and insert(index, ..)
Replace(c, k, index, updated) ==
    YInsert(YDelete(Local(c), k, index, 1), k, index, Stringify(updated))

\* handleImageUpdate / handleShapeUpdate / handleTextUpdate(id, updates)
HandleUpdate(c, k, id, geom) ==
    /\ k \in {"images", "shapes", "texts"}
    /\ Room(c, 1)
    /\ LET index == FindIndex(synced[c][k], id)
       IN  IF index # -1
           THEN LET st == Replace(c, k, index, [synced[c][k][index + 1] EXCEPT !.geom = geom])
                IN  /\ Store(c, st)
                    /\ hist' = [hist EXCEPT
                                  ![c] = IF st.thrown THEN @
                                         ELSE SaveToHistory(@, isUndoRedoOperation[c],
                                                            synced[c])]
           ELSE UNCHANGED <<ydoc, synced, net, unsent, hist>>
    /\ UNCHANGED <<gestureVars, moveVars, lastCreatedTextId, initTimer, stagePos, observers, nextId,
                   connected, isUndoRedoOperation>>

\* The texts the input box may hand over: nothing, blanks, and a word.
Texts == {"", " ", "t"}

\* newText.trim()
Trim(text) == IF text = " " THEN "" ELSE text

\* handleTextEdit('new', ..) that deletes the entity whatever the text is.
HandleTextEditDiscarding(c, newText) ==
    LET index == FindIndex(synced[c]["texts"], lastCreatedTextId[c])
        st == IF index = -1 THEN Local(c) ELSE YDelete(Local(c), "texts", index, 1)
    IN  /\ lastCreatedTextId[c] # Null
        /\ Room(c, 1)
        /\ Store(c, st)
        /\ lastCreatedTextId' = [lastCreatedTextId EXCEPT ![c] = Null]
        /\ UNCHANGED <<gestureVars, moveVars, hist, initTimer, stagePos, observers, nextId, connected,
                       isUndoRedoOperation>>

\* handleTextEdit('new', newText); an exception leaves lastCreatedTextId set.
HandleTextEditNew(c, newText) ==
    LET index == FindIndex(synced[c]["texts"], lastCreatedTextId[c])
        st == IF index = -1 THEN Local(c)
              ELSE IF Trim(newText) # ""
              THEN Replace(c, "texts", index,
                           [synced[c]["texts"][index + 1] EXCEPT
                              !.text = newText, !.isEditing = FALSE])
              ELSE YDelete(Local(c), "texts", index, 1)
    IN  /\ lastCreatedTextId[c] # Null
        /\ Room(c, 1)
        /\ Store(c, st)
        /\ hist' = [hist EXCEPT
                      ![c] = IF index # -1 /\ Trim(newText) # "" /\ ~st.thrown
                             THEN SaveToHistory(@, isUndoRedoOperation[c], synced[c])
                             ELSE @]
        /\ lastCreatedTextId' = IF st.thrown THEN lastCreatedTextId
                                ELSE [lastCreatedTextId EXCEPT ![c] = Null]
        /\ UNCHANGED <<gestureVars, moveVars, initTimer, stagePos, observers, nextId, connected, isUndoRedoOperation>>

\* yLines.delete(0, yLines.length); yImages...; yShapes...; yTexts...
DeleteAll(st) ==
    LET l == YDelete(st, "lines", 0, YLength(st.doc, "lines"))
        i == YDelete(l, "images", 0, YLength(l.doc, "images"))
        s == YDelete(i, "shapes", 0, YLength(i.doc, "shapes"))
    IN  YDelete(s, "texts", 0, YLength(s.doc, "texts"))

\* The replace without the clear: the snapshot's entities are pushed onto
\* what the arrays hold.
ApplySnapshotNoClear(c, snapshot) ==
    LET st == [Local(c) EXCEPT !.observed = FALSE]
        l == PushAll(st, "lines", snapshot["lines"])
        i == PushAll(l, "images", snapshot["images"])
        s == PushAll(i, "shapes", snapshot["shapes"])
        t == PushAll(s, "texts", snapshot["texts"])
    IN  [t EXCEPT !.synced = snapshot]

\* The replace of undo and redo: the observers are detached, the four arrays
\* are emptied, the snapshot's entities are pushed one by one, and the derived
\* lists are set to the snapshot's lists by hand.
ApplySnapshot(c, snapshot) ==
    LET st == DeleteAll([Local(c) EXCEPT !.observed = FALSE])
        l == PushAll(st, "lines", snapshot["lines"])
        i == PushAll(l, "images", snapshot["images"])
        s == PushAll(i, "shapes", snapshot["shapes"])
        t == PushAll(s, "texts", snapshot["texts"])
    IN  [t EXCEPT !.synced = snapshot]

SnapshotSize(snapshot) ==
    Len(snapshot["lines"]) + Len(snapshot["images"]) + Len(snapshot["shapes"])
        + Len(snapshot["texts"])

\* undo() with the replace recorded as one more history entry.
UndoRecording(c) ==
    LET previousState == UndoResult(hist[c])
    IN  /\ previousState # Null => Room(c, SnapshotSize(previousState))
        /\ hist' = [hist EXCEPT
                      ![c] = IF previousState # Null
                             THEN SaveState(UndoMove(@), previousState)
                             ELSE UndoMove(@)]
        /\ IF previousState # Null
           THEN Store(c, ApplySnapshot(c, previousState))
           ELSE UNCHANGED <<ydoc, synced, net, unsent>>
        /\ isUndoRedoOperation' = [isUndoRedoOperation EXCEPT ![c] = FALSE]
        /\ UNCHANGED <<gestureVars, moveVars, lastCreatedTextId, initTimer, stagePos, observers, nextId,
                       connected>>

\* The effect attaches each sync handler once.
Attached == [k \in Kinds |-> 1]

\* The handlers after the unobserve and the observe of undo and redo: unobserve
\* drops every copy of the handler, except for the collections in failed,
\* whose unobserve ended in the catch, and observe appends one copy.
Reobserved(obs, failed) ==
    [k \in Kinds |-> (IF k \in failed THEN obs[k] ELSE 0) + 1]

\* undo(), with the collections whose detach ends in the catch
UndoCatching(c, failed) ==
    LET previousState == UndoResult(hist[c])
    IN  /\ previousState # Null => Room(c, SnapshotSize(previousState))
        /\ hist' = [hist EXCEPT ![c] = UndoMove(@)]
        /\ IF previousState # Null
           THEN /\ Store(c, ApplySnapshot(c, previousState))
                /\ observers' = [observers EXCEPT ![c] = Reobserved(@, failed)]
           ELSE UNCHANGED <<ydoc, synced, net, unsent, observers>>
        /\ isUndoRedoOperation' = [isUndoRedoOperation EXCEPT ![c] = FALSE]
        /\ UNCHANGED <<gestureVars, moveVars, lastCreatedTextId, initTimer, stagePos, nextId,
                       connected>>

\* undo()
Undo(c) == UndoCatching(c, {})

\* redo(), with the collections whose detach ends in the catch
RedoCatching(c, failed) ==
    LET nextState == RedoResult(hist[c])
    IN  /\ nextState # Null => Room(c, SnapshotSize(nextState))
        /\ hist' = [hist EXCEPT ![c] = RedoMove(@)]
        /\ IF nextState # Null
           THEN /\ Store(c, ApplySnapshot(c, nextState))
                /\ observers' = [observers EXCEPT ![c] = Reobserved(@, failed)]
           ELSE UNCHANGED <<ydoc, synced, net, unsent, observers>>
        /\ isUndoRedoOperation' = [isUndoRedoOperation EXCEPT ![c] = FALSE]
        /\ UNCHANGED <<gestureVars, moveVars, lastCreatedTextId, initTimer, stagePos, nextId,
                       connected>>

\* redo()
Redo(c) == RedoCatching(c, {})

EmptyLists == [k \in Kinds |-> <<>>]

\* clearCanvas() that clears the lines and the history only.
ClearCanvasLinesOnly(c) ==
    /\ Store(c, [YDelete(Local(c), "lines", 0, YLength(ydoc[c], "lines"))
                    EXCEPT !.synced["lines"] = <<>>])
    /\ currentLine' = [currentLine EXCEPT ![c] = Null]
    /\ hist' = [hist EXCEPT ![c] = EmptyHistory]
    /\ IF currentLine[c] # Null
       THEN Rerender(c)
       ELSE UNCHANGED <<now, lastMouseMoveTime, throttle, stale>>
    /\ UNCHANGED <<tool, isDrawing, currentShape, eraserState, selection, lastCreatedTextId,
                   initTimer, stagePos, observers, nextId, connected, isUndoRedoOperation, penTracking, stroke,
                   pointerMoved>>

\* clearCanvas(): the four arrays are emptied, the derived lists and the drafts
\* are reset and the history is cleared.
ClearCanvas(c) ==
    /\ Store(c, [DeleteAll(Local(c)) EXCEPT !.synced = EmptyLists])
    /\ currentLine' = [currentLine EXCEPT ![c] = Null]
    /\ currentShape' = [currentShape EXCEPT ![c] = Null]
    /\ hist' = [hist EXCEPT ![c] = EmptyHistory]
    /\ IF currentLine[c] # Null \/ currentShape[c] # Null
       THEN Rerender(c)
       ELSE UNCHANGED <<now, lastMouseMoveTime, throttle, stale>>
    /\ selection' = [selection EXCEPT ![c] = InitialSelection]
    /\ UNCHANGED <<tool, isDrawing, eraserState, lastCreatedTextId, initTimer, stagePos, observers, nextId, connected,
                   isUndoRedoOperation, penTracking, stroke, pointerMoved>>

\* The setTimeout(.., 100) of the mount effect: the startup snapshot is built
\* from the arrays themselves; a parse that throws ends the callback.
InitialSnapshot(c) ==
    /\ initTimer[c]
    /\ initTimer' = [initTimer EXCEPT ![c] = FALSE]
    /\ hist' = [hist EXCEPT
                  ![c] = IF isUndoRedoOperation[c]
                            \/ \E k \in Kinds : AnyThrows(ToArray(ydoc[c], k))
                         THEN @
                         ELSE SaveState(@, [k \in Kinds |->
                                              ParseFilter(ToArray(ydoc[c], k))])]
    /\ UNCHANGED <<gestureVars, moveVars, lastCreatedTextId, synced, nextId, ydoc,
                   connected, unsent, net, isUndoRedoOperation, stagePos, observers>>

\* The pointer leaves the canvas in the middle of a pen or shape gesture and the
\* button is released outside: no handler of the controller is called, so
\* isDrawing.current and the draft stay as they are. The log keeps the id of
\* the draft that was left behind.
PointerLeaves(c) ==
    /\ isDrawing[c]
    /\ Len(trace) < MaxTrace
    /\ \/ tool[c] = "pen" /\ currentLine[c] # Null
          /\ trace' = Append(trace, currentLine[c].id)
       \/ tool[c] = "rectangle" /\ currentShape[c] # Null
          /\ trace' = Append(trace, currentShape[c].id)
    /\ UNCHANGED <<gestureVars, moveVars, lastCreatedTextId, synced, hist, initTimer, stagePos, observers, nextId, ydoc,
                   connected, unsent, net, isUndoRedoOperation>>

(* ------------------------------------------------------------------ *)
(* The history manager on its own                                      *)
(* ------------------------------------------------------------------ *)

\* Snapshots pushed beyond the capacity, how far below the top the cursor
\* goes, and how many entries pushes below the top cut off.
MaxOver == 1
MaxDepth == 1
MaxCut == 1

\* The snapshot of a canvas that holds the n-th stroke: a state not saved before.
Marked(n) == [EmptyLists EXCEPT !["lines"] = <<Entity(<<1, n>>, 2, "", FALSE)>>]
Mark(snapshot) == snapshot["lines"][1].id[2]

\* A state that is neither on the stack nor in the redo tail a push cuts off:
\* the marks grow along the stack.
Fresh(h) == IF h.history = <<>> THEN Marked(0)
            ELSE Marked(Mark(h.history[Len(h.history)]) + 1)

\* The entries that pushes below the top have cut off the stack: the marks
\* missing between its first and its last entry.
Cut(h) ==
    IF h.history = <<>> THEN 0
    ELSE Mark(h.history[Len(h.history)]) - Mark(h.history[1]) + 1 - Len(h.history)

\* historyManager.saveState(state) with a state not saved before.
HistorySaveState(c) ==
    /\ Mark(Fresh(hist[c])) < MaxHistorySize + MaxOver
    /\ Cut(hist[c]) + Len(hist[c].history) - hist[c].currentIndex <= MaxCut
    /\ hist' = [hist EXCEPT ![c] = SaveState(@, Fresh(hist[c]))]
    /\ trace' = <<>>
    /\ UNCHANGED <<gestureVars, moveVars, lastCreatedTextId, synced, initTimer, stagePos, observers, nextId,
                   ydoc, connected, unsent, net, isUndoRedoOperation>>

\* historyManager.undo(); the log keeps what it returned.
HistoryUndo(c) ==
    /\ CanUndo(hist[c]) => Len(hist[c].history) - hist[c].currentIndex < MaxDepth
    /\ hist' = [hist EXCEPT ![c] = UndoMove(@)]
    /\ trace' = <<"undo", UndoResult(hist[c])>>
    /\ UNCHANGED <<gestureVars, moveVars, lastCreatedTextId, synced, initTimer, stagePos, observers, nextId,
                   ydoc, connected, unsent, net, isUndoRedoOperation>>

\* historyManager.redo(); the log keeps what it returned.
HistoryRedo(c) ==
    /\ hist' = [hist EXCEPT ![c] = RedoMove(@)]
    /\ trace' = <<"redo", RedoResult(hist[c])>>
    /\ UNCHANGED <<gestureVars, moveVars, lastCreatedTextId, synced, initTimer, stagePos, observers, nextId,
                   ydoc, connected, unsent, net, isUndoRedoOperation>>

\* historyManager.clear()
HistoryClear(c) ==
    /\ hist' = [hist EXCEPT ![c] = EmptyHistory]
    /\ trace' = <<"clear", Null>>
    /\ UNCHANGED <<gestureVars, moveVars, lastCreatedTextId, synced, initTimer, stagePos, observers, nextId,
                   ydoc, connected, unsent, net, isUndoRedoOperation>>

(* ------------------------------------------------------------------ *)
(* The relay                                                           *)
(* ------------------------------------------------------------------ *)

\* The collections an applied update changed: their observers are called.
Changed(old, new) ==
    {k \in Kinds : old.arr[k] # new.arr[k] \/ NotDeleted(old, k) # NotDeleted(new, k)}

\* An applied update changed the view map: syncViewState is called.
ViewChanged(old, new) == \E k \in ViewKeys : old.arr[k] # new.arr[k]

\* The observers of the collections ks run on the replica: each republishes
\* its derived list unless its parse throws.
Observed(lists, doc, ks) ==
    [k \in Kinds |-> IF k \in ks /\ ~AnyThrows(ToArray(doc, k))
                     THEN ParseFilter(ToArray(doc, k))
                     ELSE lists[k]]

\* An update a replica has received: integrated or kept pending.
Delivered(doc, u) ==
    /\ IF u.item = Null THEN TRUE
       ELSE u.item.id \in ItemIds(doc) \/ u.item \in doc.pendingItems
    /\ u.ds \subseteq (doc.del \cup doc.pendingDs)

\* An update a replica has applied.
Applied(doc, u) ==
    /\ IF u.item = Null THEN TRUE ELSE u.item.id \in ItemIds(doc)
    /\ u.ds \subseteq doc.del

\* The websocket is a stream: an update reaches a client after the updates
\* the same sender made before it.
InOrder(doc, u) ==
    \A v \in net : (v.from = u.from /\ v.seq < u.seq) => Delivered(doc, v)

\* The provider receives an update from the relay: any update the relay holds,
\* in any order, any number of times.
Deliver(c, u) ==
    /\ connected[c]
    /\ u \in net
    /\ \E new \in {ApplyUpdate(ydoc[c], u)} :
          /\ ydoc' = [ydoc EXCEPT ![c] = new]
          /\ synced' = [synced EXCEPT
                          ![c] = Observed(@, new, Changed(ydoc[c], new))]
          /\ IF ViewChanged(ydoc[c], new)
             THEN /\ stagePos' = [stagePos EXCEPT ![c] = ViewState(new)]
                  /\ Rerender(c)
                  /\ UNCHANGED pointerMoved
             ELSE UNCHANGED <<stagePos, moveVars>>
    /\ UNCHANGED <<gestureVars, lastCreatedTextId, hist, initTimer, observers, nextId,
                   connected, unsent, net, isUndoRedoOperation>>

\* The websocket closes.
Disconnect(c) ==
    /\ connected[c]
    /\ connected' = [connected EXCEPT ![c] = FALSE]
    /\ UNCHANGED <<gestureVars, moveVars, lastCreatedTextId, synced, hist, initTimer, stagePos, observers,
                   nextId, ydoc, unsent, net, isUndoRedoOperation>>

\* A reconnect that forgets what was made while the socket was closed.
ReconnectDropping(c) ==
    /\ ~connected[c]
    /\ connected' = [connected EXCEPT ![c] = TRUE]
    /\ unsent' = [unsent EXCEPT ![c] = {}]
    /\ UNCHANGED <<gestureVars, moveVars, lastCreatedTextId, synced, hist, initTimer, stagePos, observers,
                   nextId, ydoc, net, isUndoRedoOperation>>

\* The websocket reopens: the sync steps hand the relay what it lacks.
Reconnect(c) ==
    /\ ~connected[c]
    /\ connected' = [connected EXCEPT ![c] = TRUE]
    /\ net' = net \cup unsent[c]
    /\ unsent' = [unsent EXCEPT ![c] = {}]
    /\ UNCHANGED <<gestureVars, moveVars, lastCreatedTextId, synced, hist, initTimer, stagePos, observers,
                   nextId, ydoc, isUndoRedoOperation>>

\* A peer that is not this program (the room is open to any client of the
\* relay) inserts one string of its own at the head of collection k.
Foreign == Cardinality(Clients) + 1

ForeignInsert(k, str) ==
    /\ \A u \in net : u.from # Foreign
    /\ net' = net \cup {Update(Item(<<Foreign, 0>>, Null, Null, k, str), {}, Foreign, 0)}
    /\ UNCHANGED <<gestureVars, moveVars, lastCreatedTextId, synced, hist, initTimer, stagePos, observers, nextId, ydoc,
                   connected, unsent, isUndoRedoOperation>>

(* ------------------------------------------------------------------ *)
(* Specifications                                                      *)
(* ------------------------------------------------------------------ *)

Tools == {"pen", "rectangle", "text", "eraser"}

Init ==
    /\ tool = [c \in Clients |-> "pen"]
    /\ isDrawing = [c \in Clients |-> FALSE]
    /\ currentLine = [c \in Clients |-> Null]
    /\ currentShape = [c \in Clients |-> Null]
    /\ eraserState = [c \in Clients |-> FALSE]
    /\ selection = [c \in Clients |-> InitialSelection]
    /\ lastCreatedTextId = [c \in Clients |-> Null]
    /\ synced = [c \in Clients |-> EmptyLists]
    /\ hist = [c \in Clients |-> EmptyHistory]
    /\ initTimer = [c \in Clients |-> TRUE]
    /\ stagePos = [c \in Clients |-> InitialStagePos]
    /\ observers = [c \in Clients |-> Attached]
    /\ nextId = [c \in Clients |-> 0]
    /\ ydoc = [c \in Clients |-> EmptyDoc]
    /\ connected = [c \in Clients |-> TRUE]
    /\ unsent = [c \in Clients |-> {}]
    /\ net = {}
    /\ isUndoRedoOperation = [c \in Clients |-> FALSE]
    /\ penTracking = [c \in Clients |->
                         [lastTimestamp |-> 0, lastPosition |-> FALSE, velocityHistory |-> 0]]
    /\ stroke = [c \in Clients |-> NoStroke]
    /\ now = Limit
    /\ lastMouseMoveTime = [c \in Clients |-> 0]
    /\ throttle = [c \in Clients |-> NewThrottle]
    /\ stale = [c \in Clients |-> {}]
    /\ pointerMoved = [c \in Clients |-> FALSE]
    /\ trace = <<>>

\* The room once the startup timer of each client has fired on the empty
\* document.
InitStarted ==
    /\ tool = [c \in Clients |-> "pen"]
    /\ isDrawing = [c \in Clients |-> FALSE]
    /\ currentLine = [c \in Clients |-> Null]
    /\ currentShape = [c \in Clients |-> Null]
    /\ eraserState = [c \in Clients |-> FALSE]
    /\ selection = [c \in Clients |-> InitialSelection]
    /\ lastCreatedTextId = [c \in Clients |-> Null]
    /\ synced = [c \in Clients |-> EmptyLists]
    /\ hist = [c \in Clients |-> SaveState(EmptyHistory, EmptyLists)]
    /\ initTimer = [c \in Clients |-> FALSE]
    /\ stagePos = [c \in Clients |-> InitialStagePos]
    /\ observers = [c \in Clients |-> Attached]
    /\ nextId = [c \in Clients |-> 0]
    /\ ydoc = [c \in Clients |-> EmptyDoc]
    /\ connected = [c \in Clients |-> TRUE]
    /\ unsent = [c \in Clients |-> {}]
    /\ net = {}
    /\ isUndoRedoOperation = [c \in Clients |-> FALSE]
    /\ penTracking = [c \in Clients |->
                         [lastTimestamp |-> 0, lastPosition |-> FALSE, velocityHistory |-> 0]]
    /\ stroke = [c \in Clients |-> NoStroke]
    /\ now = Limit
    /\ lastMouseMoveTime = [c \in Clients |-> 0]
    /\ throttle = [c \in Clients |-> NewThrottle]
    /\ stale = [c \in Clients |-> {}]
    /\ pointerMoved = [c \in Clients |-> FALSE]
    /\ trace = <<>>

\* A step that is not logged.
Quiet(A) == A /\ UNCHANGED trace

\* One client alone in the room, every handler.
NextSolo ==
    \/ Quiet(\E t \in Tools : SetTool(1, t))
    \/ Quiet(MouseDownText(1))
    \/ Quiet(MouseDownEraser(1))
    \/ Quiet(\E hasPos \in BOOLEAN : MouseDownDraw(1, hasPos))
    \/ Quiet(MouseMovePen(1))
    \/ Quiet(MouseMoveShape(1))
    \/ Quiet(MouseUpPen(1))
    \/ Quiet(MouseUpShape(1))
    \/ Quiet(MouseUpIdle(1))
    \/ Quiet(\E hits \in SUBSET SyncedIds(1) : MouseUpEraser(1, hits))
    \/ Quiet(ImageUpload(1))
    \/ Quiet(\E k \in {"images", "shapes", "texts"}, id \in SyncedIds(1), g \in {0, 1} :
                HandleUpdate(1, k, id, g))
    \/ Quiet(\E newText \in Texts : HandleTextEditNew(1, newText))
    \/ Quiet(Undo(1))
    \/ Quiet(Redo(1))
    \/ Quiet(ClearCanvas(1))
    \/ Quiet(InitialSnapshot(1))

SpecSolo == Init /\ [][NextSolo]_vars

\* One client alone in the room with the pen, the text tool, images, updates
\* and the history.
NextUndo ==
    \/ Quiet(\E t \in {"pen", "text"} : SetTool(1, t))
    \/ Quiet(MouseDownText(1))
    \/ Quiet(MouseDownDraw(1, TRUE))
    \/ Quiet(MouseMovePen(1))
    \/ Quiet(MouseUpPen(1))
    \/ Quiet(MouseUpIdle(1))
    \/ Quiet(ImageUpload(1))
    \/ Quiet(\E k \in {"images", "texts"}, id \in SyncedIds(1), g \in {0, 1} :
                HandleUpdate(1, k, id, g))
    \/ Quiet(\E newText \in Texts : HandleTextEditNew(1, newText))
    \/ Quiet(Undo(1))
    \/ Quiet(Redo(1))
    \/ Quiet(ClearCanvas(1))
    \/ Quiet(InitialSnapshot(1))

SpecUndo == Init /\ [][NextUndo]_vars

\* The same client where an unobserve of undo or redo may end in its catch.
MaxObservers == 2
DetachFailures == {{"lines"}, Kinds}

NextDetach ==
    \/ Quiet(MouseDownDraw(1, TRUE))
    \/ Quiet(MouseMovePen(1))
    \/ Quiet(MouseUpPen(1))
    \/ Quiet(ImageUpload(1))
    \/ Quiet(Undo(1))
    \/ Quiet(Redo(1))
    \/ Quiet(\E failed \in DetachFailures :
                /\ \A k \in failed : observers[1][k] < MaxObservers
                /\ UndoResult(hist[1]) # Null
                /\ UndoCatching(1, failed))
    \/ Quiet(\E failed \in DetachFailures :
                /\ \A k \in failed : observers[1][k] < MaxObservers
                /\ RedoResult(hist[1]) # Null
                /\ RedoCatching(1, failed))
    \/ Quiet(InitialSnapshot(1))

SpecDetach == Init /\ [][NextDetach]_vars

\* One client alone in the room with the pen and the history; the log keeps
\* the startup snapshot, the commits and the undo() and redo() calls in order.
Log(name) == Len(trace) < MaxTrace /\ trace' = Append(trace, name)

NextScenario ==
    \/ InitialSnapshot(1) /\ Log("init")
    \/ Quiet(MouseDownDraw(1, TRUE))
    \/ Quiet(MouseMovePen(1))
    \/ MouseUpPen(1) /\ (IF ShouldSyncLine(currentLine[1]) THEN Log("commit")
                                                           ELSE UNCHANGED trace)
    \/ Undo(1) /\ Log("undo")
    \/ Redo(1) /\ Log("redo")

SpecScenario == Init /\ [][NextScenario]_vars

\* Two clients that place images and move them, over a relay that delivers
\* any update it holds, in any order, any number of times.
NextRelay ==
    \/ Quiet(\E c \in Clients : RoomItems < MaxRelayItems /\ ImageUpload(c))
    \/ Quiet(\E c \in Clients, id \in AllIds :
                RoomItems < MaxRelayItems /\ HandleUpdate(c, "images", id, 1))
    \/ Quiet(\E c \in Clients, u \in net : Deliver(c, u))

SpecRelay == InitStarted /\ [][NextRelay]_vars

\* Client 1 places images and undoes and redoes; client 2 places images; the
\* relay delivers to a client the updates it lacks, those of one sender in
\* the order they were made.
NextReplace ==
    \/ Quiet(ImageUpload(1))
    \/ Quiet(Undo(1))
    \/ Quiet(Redo(1))
    \/ Quiet(Clock(2) < MaxRemoteEdits /\ ImageUpload(2))
    \/ Quiet(\E c \in Clients, u \in net :
                ~Delivered(ydoc[c], u) /\ InOrder(ydoc[c], u) /\ Deliver(c, u))

SpecReplace == InitStarted /\ [][NextReplace]_vars

\* Where a pan leaves the stage.
StagePositions == {<<0, 3>>, <<5, 7>>}

\* Two clients pan the shared view; the relay delivers to a client the
\* updates it lacks, those of one sender in the order they were made.
NextPan ==
    \/ Quiet(\E c \in Clients : SetTool(c, "pan"))
    \/ Quiet(\E c \in Clients, p \in StagePositions : HandleDragEnd(c, p[1], p[2]))
    \/ Quiet(\E c \in Clients, u \in net :
                ~Delivered(ydoc[c], u) /\ InOrder(ydoc[c], u) /\ Deliver(c, u))

SpecPan == InitStarted /\ [][NextPan]_vars

\* Two clients that place images and move them; the relay delivers to a
\* client the updates it lacks, those of one sender in the order they were made.
NextRoom ==
    \/ Quiet(\E c \in Clients : RoomItems < MaxRelayItems /\ ImageUpload(c))
    \/ Quiet(\E c \in Clients, id \in AllIds :
                RoomItems < MaxRelayItems /\ HandleUpdate(c, "images", id, 1))
    \/ Quiet(\E c \in Clients, u \in net :
                ~Delivered(ydoc[c], u) /\ InOrder(ydoc[c], u) /\ Deliver(c, u))

SpecRoom == InitStarted /\ [][NextRoom]_vars

\* Two clients that place images while their websockets close and reopen; the
\* log keeps the ids of the elements inserted while the inserting client was
\* disconnected.
UploadLogged(c) ==
    /\ RoomItems < MaxRelayItems
    /\ ImageUpload(c)
    /\ trace' = IF connected[c] THEN trace ELSE Append(trace, <<c, Clock(c)>>)

\* The relay hands client c an update it lacks, in the sender's order.
Receive(c) ==
    Quiet(\E u \in net : ~Delivered(ydoc[c], u) /\ InOrder(ydoc[c], u) /\ Deliver(c, u))

NextOffline ==
    \/ \E c \in Clients : UploadLogged(c)
    \/ \E c \in Clients : Quiet(Disconnect(c))
    \/ \E c \in Clients : Quiet(Reconnect(c))
    \/ \E c \in Clients : Receive(c)

\* The provider keeps trying to reconnect, and every connection starts with a
\* sync that hands over what the client lacks.
SpecOffline ==
    /\ InitStarted /\ [][NextOffline]_vars
    /\ \A c \in Clients : WF_vars(Quiet(Reconnect(c)))
    /\ \A c \in Clients : SF_vars(Receive(c))

\* One client and a peer that is not this program: the peer puts one string
\* of its own into the lines or the images, the client places and moves images.
NextMalformed ==
    \/ Quiet(\E k \in {"lines", "images"}, str \in {Garbage, JsonNull, NoIdObject} :
                ForeignInsert(k, str))
    \/ Quiet(ImageUpload(1))
    \/ Quiet(\E id \in AllIds : HandleUpdate(1, "images", id, 1))
    \/ Quiet(InitialSnapshot(1))
    \/ Receive(1)

SpecMalformed == Init /\ [][NextMalformed]_vars

\* One client with the pen and a shape tool whose gestures may be abandoned:
\* gesture starts (with or without a pointer position), moves, ends and tool
\* changes in any order; the log keeps the ids of the abandoned drafts.
NextAbandon ==
    \/ Quiet(\E t \in {"pen", "rectangle"} : SetTool(1, t))
    \/ Quiet(\E hasPos \in BOOLEAN : MouseDownDraw(1, hasPos))
    \/ Quiet(MouseMovePen(1))
    \/ Quiet(MouseMoveShape(1))
    \/ Quiet(MouseUpPen(1))
    \/ Quiet(MouseUpShape(1))
    \/ Quiet(MouseUpIdle(1))
    \/ PointerLeaves(1)

SpecAbandon == InitStarted /\ [][NextAbandon]_vars

\* One client with the pen and a shape tool, every gesture ended by a mouse
\* up: gesture starts, moves, ends and tool changes in any order.
NextSwitch ==
    \/ Quiet(\E t \in {"pen", "rectangle"} : SetTool(1, t))
    \/ Quiet(\E hasPos \in BOOLEAN : MouseDownDraw(1, hasPos))
    \/ Quiet(MouseMovePen(1))
    \/ Quiet(MouseMoveShape(1))
    \/ Quiet(MouseUpPen(1))
    \/ Quiet(MouseUpShape(1))
    \/ Quiet(MouseUpIdle(1))

SpecSwitch == InitStarted /\ [][NextSwitch]_vars

\* One client with the pen, the clock running: gestures start and end, move
\* events arrive at any time and the timers of the throttles fire at or after
\* the time they are due, in any order. Time passes and every timer fires in
\* the end.
NextThrottle ==
    \/ Quiet(\E hasPos \in BOOLEAN : nextId[1] < MaxGestures /\ MouseDownDraw(1, hasPos))
    \/ \E hasPos \in BOOLEAN : MouseMove(1, hasPos)
    \/ ThrottleReset(1)
    \/ \E hasPos \in BOOLEAN : ThrottleCall(1, hasPos)
    \/ \E tm \in stale[1], hasPos \in BOOLEAN : StaleCall(1, tm, hasPos)
    \/ Tick
    \/ Quiet(MouseUpPen(1))
    \/ Quiet(MouseUpIdle(1))

SpecThrottle ==
    /\ InitStarted /\ [][NextThrottle]_vars
    /\ WF_vars(Tick)
    /\ WF_vars(ThrottleReset(1))
    /\ WF_vars(\E hasPos \in BOOLEAN : ThrottleCall(1, hasPos))
    /\ WF_vars(\E tm \in stale[1], hasPos \in BOOLEAN : StaleCall(1, tm, hasPos))

\* The pen of one client over two gestures, with the clock, the throttle of
\* handleMouseMove and the timers the throttles of earlier renders left.
TrailingGestures == 2

NextTrailing ==
    \/ Quiet(\E hasPos \in BOOLEAN : nextId[1] < TrailingGestures /\ MouseDownDraw(1, hasPos))
    \/ \E hasPos \in BOOLEAN : MouseMove(1, hasPos)
    \/ ThrottleReset(1)
    \/ \E hasPos \in BOOLEAN : ThrottleCall(1, hasPos)
    \/ \E tm \in stale[1], hasPos \in BOOLEAN : StaleCall(1, tm, hasPos)
    \/ Tick
    \/ Quiet(MouseUpPen(1))
    \/ Quiet(MouseUpIdle(1))

SpecTrailing == InitStarted /\ [][NextTrailing]_vars

\* One client alone in the room with the text tool, images, updates of texts
\* and the history.
NextText ==
    \/ Quiet(\E t \in {"pen", "text"} : SetTool(1, t))
    \/ Quiet(MouseDownText(1))
    \/ Quiet(\E newText \in Texts : HandleTextEditNew(1, newText))
    \/ Quiet(ImageUpload(1))
    \/ Quiet(\E id \in SyncedIds(1), g \in {0, 1} : HandleUpdate(1, "texts", id, g))
    \/ Quiet(Undo(1))
    \/ Quiet(Redo(1))
    \/ Quiet(InitialSnapshot(1))

SpecText == Init /\ [][NextText]_vars

\* A client joins a room that is in use: client 1 has started, has placed one
\* image and the relay holds it; client 2 has just mounted, its replica is
\* empty and its startup timer is running.
Founded ==
    YPush([client |-> 1, doc |-> EmptyDoc, synced |-> EmptyLists, out |-> {}, sent |-> 0,
           observed |-> TRUE, thrown |-> FALSE, hasChanges |-> FALSE],
          "images", Stringify(Entity(<<1, 0>>, 0, "", FALSE)))

InitJoin ==
    /\ tool = [c \in Clients |-> "pen"]
    /\ isDrawing = [c \in Clients |-> FALSE]
    /\ currentLine = [c \in Clients |-> Null]
    /\ currentShape = [c \in Clients |-> Null]
    /\ eraserState = [c \in Clients |-> FALSE]
    /\ selection = [c \in Clients |-> InitialSelection]
    /\ lastCreatedTextId = [c \in Clients |-> Null]
    /\ synced = [c \in Clients |-> IF c = 1 THEN Founded.synced ELSE EmptyLists]
    /\ hist = [c \in Clients |->
                  IF c = 1 THEN SaveState(SaveState(EmptyHistory, EmptyLists), EmptyLists)
                  ELSE EmptyHistory]
    /\ initTimer = [c \in Clients |-> c # 1]
    /\ stagePos = [c \in Clients |-> InitialStagePos]
    /\ observers = [c \in Clients |-> Attached]
    /\ nextId = [c \in Clients |-> IF c = 1 THEN 1 ELSE 0]
    /\ ydoc = [c \in Clients |-> IF c = 1 THEN Founded.doc ELSE EmptyDoc]
    /\ connected = [c \in Clients |-> TRUE]
    /\ unsent = [c \in Clients |-> {}]
    /\ net = Founded.out
    /\ isUndoRedoOperation = [c \in Clients |-> FALSE]
    /\ penTracking = [c \in Clients |->
                         [lastTimestamp |-> 0, lastPosition |-> FALSE, velocityHistory |-> 0]]
    /\ stroke = [c \in Clients |-> NoStroke]
    /\ now = Limit
    /\ lastMouseMoveTime = [c \in Clients |-> 0]
    /\ throttle = [c \in Clients |-> NewThrottle]
    /\ stale = [c \in Clients |-> {}]
    /\ pointerMoved = [c \in Clients |-> FALSE]
    /\ trace = <<>>

\* The relay hands the joining client what it lacks after any delay, the
\* startup timer fires when its 100 ms are over, and both clients place images
\* and move them meanwhile.
NextJoin ==
    \/ Receive(2)
    \/ Quiet(InitialSnapshot(2))
    \/ Quiet(\E c \in Clients : ImageUpload(c))
    \/ Quiet(\E c \in Clients, id \in AllIds : HandleUpdate(c, "images", id, 1))
    \/ Receive(1)

SpecJoin == InitJoin /\ [][NextJoin]_vars

\* The history manager of one client, called in any order.
NextHistory ==
    \/ HistorySaveState(1)
    \/ HistoryUndo(1)
    \/ HistoryRedo(1)
    \/ HistoryClear(1)

SpecHistory == Init /\ [][NextHistory]_vars

\* One client that draws, places images, selects them, undoes and clears the
\* canvas; the log keeps the calls of clearCanvas.
NextClear ==
    \/ Quiet(InitialSnapshot(1))
    \/ Quiet(\E t \in {"pen", "rectangle", "select"} : SetTool(1, t))
    \/ Quiet(MouseDownDraw(1, TRUE))
    \/ Quiet(MouseMovePen(1))
    \/ Quiet(MouseUpPen(1))
    \/ Quiet(ImageUpload(1))
    \/ Quiet(\E id \in AllIds : MouseDownSelect(1, "images", id))
    \/ Quiet(Undo(1))
    \/ ClearCanvas(1) /\ Log("clear")

SpecClear == Init /\ [][NextClear]_vars

\* Client 1 places images, moves them, erases, undoes and redoes; client 2
\* places images; the relay delivers to client 1 the updates it lacks, in the
\* order they were made.
NextSnapshot ==
    \/ Quiet(SetTool(1, "eraser"))
    \/ Quiet(RoomItems < MaxRelayItems /\ ImageUpload(1))
    \/ Quiet(\E id \in SyncedIds(1) :
                RoomItems < MaxRelayItems /\ HandleUpdate(1, "images", id, 1))
    \/ Quiet(MouseDownEraser(1))
    \/ Quiet(\E hits \in SUBSET SyncedIds(1) : MouseUpEraser(1, hits))
    \/ Quiet(Undo(1))
    \/ Quiet(Redo(1))
    \/ Quiet(Clock(2) < MaxRemoteEdits /\ ImageUpload(2))
    \/ Quiet(\E u \in net :
                ~Delivered(ydoc[1], u) /\ InOrder(ydoc[1], u) /\ Deliver(1, u))

SpecSnapshot == InitStarted /\ [][NextSnapshot]_vars

\* The start of a gesture, logged; at most MaxGestures of them.
Begin(name) == Len(trace) < MaxGestures /\ trace' = Append(trace, name)

\* One client's pen, shape and eraser gestures and its pans, with the clock,
\* the throttle of handleMouseMove and its timers; the tool is chosen before
\* the first pointer event reaches the canvas.
NextGesture ==
    \/ Quiet(\E t \in {"pen", "rectangle", "eraser", "pan"} :
                /\ trace = <<>> /\ throttle[1] = NewThrottle /\ stale[1] = {}
                /\ SetTool(1, t))
    \/ \E p \in StagePositions : HandleDragEnd(1, p[1], p[2]) /\ Begin("pan")
    \/ \E hasPos \in BOOLEAN : MouseDownDraw(1, hasPos) /\ Begin("draw")
    \/ MouseDownEraser(1) /\ Begin("erase")
    \/ \E hasPos \in BOOLEAN : MouseMove(1, hasPos)
    \/ ThrottleReset(1)
    \/ \E hasPos \in BOOLEAN : ThrottleCall(1, hasPos)
    \/ \E tm \in stale[1], hasPos \in BOOLEAN : StaleCall(1, tm, hasPos)
    \/ Tick
    \/ Quiet(MouseUpPen(1))
    \/ Quiet(MouseUpShape(1))
    \/ Quiet(\E hits \in SUBSET SyncedIds(1) : MouseUpEraser(1, hits))
    \/ Quiet(MouseUpIdle(1))

SpecGesture == InitStarted /\ [][NextGesture]_vars

\* One client draws the first stroke of its session, point by point.
NextPen ==
    \/ \E position \in Positions : PenDown(1, position)
    \/ \E position \in Positions, timeDelta \in TimeDeltas :
           Len(stroke[1].raw) <= MaxMoves /\ PenMoveTo(1, position, timeDelta)
    \/ PenUp(1)

SpecPen == Init /\ [][NextPen]_vars

\* One client draws the first stroke of its session with a slow hand, up to
\* RawPoints pointer positions.
NextSlow ==
    \/ \E position \in Positions : PenDown(1, position)
    \/ \E position \in Positions :
           Len(stroke[1].raw) < RawPoints /\ PenMoveTo(1, position, SlowTimeDelta)
    \/ PenUp(1)

SpecSlow == Init /\ [][NextSlow]_vars

\* A hand that stays on two pixels, its events 0 or 2 ms apart: a first
\* stroke long enough to fill the velocity window and, once it is committed
\* with the window overfull, the start of a second.
WindowPositions == {<<0, 0>>, <<3, 0>>}
WindowDeltas == {0, 2}
WindowMoves == 6
SecondMoves == 1

NextWindow ==
    \/ \E position \in WindowPositions : PenDown(1, position)
    \/ \E position \in WindowPositions, timeDelta \in WindowDeltas :
           /\ Len(stroke[1].raw) <=
                 (IF stroke[1].committed = <<>> THEN WindowMoves ELSE SecondMoves)
           /\ PenMoveTo(1, position, timeDelta)
    \/ PenUp(1)
    \/ \E position \in WindowPositions :
           /\ Len(stroke[1].samples) > MaxVelocityHistory
           /\ stroke[1].committed # <<>>
           /\ PenDownAgain(1, position, 2)

SpecWindow == Init /\ [][NextWindow]_vars

(* ------------------------------------------------------------------ *)
(* Properties                                                          *)
(* ------------------------------------------------------------------ *)

\* The entities a replica's four collections hold, in order.
Collections(doc) == [k \in Kinds |-> ParseFilter(ToArray(doc, k))]

\* The ids of the entities of collection k of a replica, in order.
EntityIds(doc, k) ==
    LET list == ParseFilter(ToArray(doc, k)) IN [i \in 1..Len(list) |-> list[i].id]

\* A handler that commits a stroke, a shape, an image, a text or an update.
Commit(c) ==
    \/ MouseUpPen(c)
    \/ MouseUpShape(c)
    \/ ImageUpload(c)
    \/ MouseDownText(c)
    \/ \E k \in {"images", "shapes", "texts"}, id \in SyncedIds(c), g \in {0, 1} :
          HandleUpdate(c, k, id, g)
    \/ HandleTextEditNew(c, "t")

\* C1: the snapshot a commit pushes to the history holds the four collections
\* as they are after the commit, the entity just committed included.
C1_SnapshotHoldsTheCommit ==
    [][\A c \in Clients :
          (Commit(c) /\ hist'[c] # hist[c]) =>
              hist'[c].history[hist'[c].currentIndex] = Collections(ydoc'[c])]_vars

\* The n-th stroke committed by client 1, read from the n-th item it created.
Stroke(n) ==
    LET s == ydoc[1].arr["lines"] IN Parse(s[PosOf(s, <<1, n - 1>>)].content)

\* C2: after the startup snapshot and the commits of s1 and then s2, one undo()
\* leaves the lines collection holding exactly s1, and a following redo()
\* leaves it holding exactly s1 and s2.
C2_UndoThenRedo ==
    /\ trace = <<"init", "commit", "commit", "undo">> =>
           Collections(ydoc[1])["lines"] = <<Stroke(1)>>
    /\ trace = <<"init", "commit", "commit", "undo", "redo">> =>
           Collections(ydoc[1])["lines"] = <<Stroke(1), Stroke(2)>>

\* C3: at the end of an eraser gesture each collection loses exactly the
\* entities of its deletion set and keeps every other entity, and a history
\* entry is saved iff at least one entity was removed.
C3_EraserRemovesTheDeletionSet ==
    [][\A c \in Clients, hits \in SUBSET AllIds :
          MouseUpEraser(c, hits) =>
              /\ \A k \in Kinds :
                    Collections(ydoc'[c])[k] =
                        SelectSeq(Collections(ydoc[c])[k], LAMBDA e : e.id \notin hits)
              /\ hist'[c] # hist[c] <=> Collections(ydoc'[c]) # Collections(ydoc[c])]_vars

\* C4: no collection of any replica holds two entries with the same entity id.
C4_EntityIdsAreUnique ==
    \A c \in Clients, k \in Kinds :
        \A i, j \in 1..Len(EntityIds(ydoc[c], k)) :
            EntityIds(ydoc[c], k)[i] = EntityIds(ydoc[c], k)[j] => i = j

\* The strings of the entities of a list, as a collection holds them.
Strings(list) == [i \in 1..Len(list) |-> Stringify(list[i])]

\* A replica and derived lists that hold exactly a snapshot.
HoldsSnapshot(doc, lists, snapshot) ==
    \A k \in Kinds : ToArray(doc, k) = Strings(snapshot[k]) /\ lists[k] = snapshot[k]

\* C5: when undo() or redo() returns a snapshot, right after the call each
\* collection of the local replica holds exactly the snapshot's entities, in
\* the snapshot's order, and the derived lists equal them.
C5_ReplaceHoldsTheSnapshot ==
    [][\A c \in Clients :
          /\ (Undo(c) /\ CanUndo(hist[c])) =>
                 HoldsSnapshot(ydoc'[c], synced'[c], UndoResult(hist[c]))
          /\ (Redo(c) /\ CanRedo(hist[c])) =>
                 HoldsSnapshot(ydoc'[c], synced'[c], RedoResult(hist[c]))]_vars

\* An undo has replaced a canvas that held entities by a snapshot that holds
\* some: the cursor is below the top, tombstones exist, and the replica holds
\* the snapshot at the cursor.
C5_Witness ==
    /\ CanRedo(hist[1])
    /\ ydoc[1].del # {}
    /\ SnapshotSize(hist[1].history[hist[1].currentIndex]) > 0
    /\ HoldsSnapshot(ydoc[1], synced[1], hist[1].history[hist[1].currentIndex])

\* C6: across an undo() or redo() call the history stack holds the same
\* entries and the cursor moves by at most one.
C6_ReplaceIsNotRecorded ==
    [][\A c \in Clients :
          (Undo(c) \/ Redo(c)) =>
              /\ hist'[c].history = hist[c].history
              /\ hist'[c].currentIndex - hist[c].currentIndex \in {-1, 0, 1}]_vars

\* Two undos in a row after three saves: the cursor is two below the top and
\* the canvas was emptied by a replace.
C6_Witness ==
    /\ Len(hist[1].history) = 3
    /\ hist[1].currentIndex = 1
    /\ ydoc[1].del # {}

\* Every update made is at the relay and every replica has applied it.
Quiescent ==
    \A c \in Clients :
        /\ unsent[c] = {}
        /\ \A u \in net : Applied(ydoc[c], u)

\* The ids of the items that are not deleted, over the four collections.
LiveItems(doc) == ItemIds(doc) \ doc.del

\* The items ever inserted and the items ever deleted, as the relay knows them.
Inserted == {u.item.id : u \in {v \in net : v.item # Null}}
DeletedIds == UNION {u.ds : u \in net}

\* C8: once every update has been delivered all replicas hold the same
\* elements in each collection, every insert that nobody deleted is there and
\* every deleted element is gone; an update delivered again changes nothing.
C8_ReplicasConverge ==
    /\ Quiescent =>
           /\ \A c, d \in Clients, k \in Kinds : ToArray(ydoc[c], k) = ToArray(ydoc[d], k)
           /\ \A c \in Clients : LiveItems(ydoc[c]) = Inserted \ DeletedIds
    /\ \A c \in Clients, u \in net :
           Delivered(ydoc[c], u) => ApplyUpdate(ydoc[c], u) = ydoc[c]

\* Both clients have moved the same image before seeing the other's move:
\* the two reinserted elements have the same origins and both are there, the
\* element both deleted is gone, and every update has been delivered.
C8_Witness ==
    /\ Quiescent
    /\ \E x, y \in {u.item : u \in {v \in net : v.item # Null}} :
           /\ x.id[1] = 1 /\ y.id[1] = 2
           /\ x.origin = y.origin /\ x.rightOrigin = y.rightOrigin
           /\ x.rightOrigin \in DeletedIds
           /\ \A c \in Clients : {x.id, y.id} \subseteq LiveItems(ydoc[c])

\* C7: an entity that client 2 inserted and that no replace of client 1 had
\* seen (no delete set names it) is present in every replica once every update
\* has been delivered.
C7_ConcurrentInsertSurvives ==
    Quiescent =>
        \A u \in net :
            (u.from = 2 /\ u.item # Null /\ u.item.id \notin DeletedIds) =>
                \A c \in Clients :
                    \E i \in 1..YLength(ydoc[c], u.item.kind) :
                        ToArray(ydoc[c], u.item.kind)[i] = u.item.content

\* Client 2 inserted X into its empty replica, having received nothing from
\* client 1; client 1 cleared its arrays and reinserted a snapshot's entity
\* without having seen X; every update has been delivered and X is there.
C7_Witness ==
    /\ Quiescent
    /\ \E x, clear, back \in net :
           /\ x.from = 2 /\ x.item # Null /\ x.item.origin = Null /\ x.item.id = <<2, 0>>
           /\ x.item.id \notin DeletedIds
           /\ clear.from = 1 /\ clear.ds # {}
           /\ back.from = 1 /\ back.item # Null /\ back.seq > clear.seq
           /\ \E gone \in net : gone.item # Null /\ gone.item.id \in clear.ds
                                /\ gone.item.content = back.item.content
           /\ \A c \in Clients : x.item.id \in LiveItems(ydoc[c])

\* The ids of the elements inserted while their client was disconnected.
MadeOffline == {trace[i] : i \in 1..Len(trace)}

\* C9: an element inserted while the client is disconnected is in the local
\* replica at once and, after the reconnection, eventually in every replica:
\* whenever such elements exist, a state follows in which all of them are in
\* every replica.
C9_OfflineEditsArrive ==
    /\ [](\A id \in MadeOffline : id \in ItemIds(ydoc[id[1]]))
    /\ (MadeOffline # {}) ~>
           (\A id \in MadeOffline, c \in Clients : id \in ItemIds(ydoc[c]))

\* An image placed while client 1 was disconnected has reached client 2, and
\* client 1 is connected again.
C9_Witness ==
    /\ connected[1]
    /\ \E id \in MadeOffline :
           /\ id[1] = 1
           /\ \E i \in 1..YLength(ydoc[2], "images") :
                  NotDeleted(ydoc[2], "images")[i].id = id

\* A string that does not parse into a valid entity.
Malformed(str) == ParseThrows(str) \/ ~Truthy(Parse(str))

\* The entities of the well-formed elements of collection k, in order.
ValidEntities(doc, k) ==
    LET good == SelectSeq(ToArray(doc, k), LAMBDA str : ~Malformed(str))
    IN  [i \in 1..Len(good) |-> Parse(good[i])]

\* C10: when a collection holds one malformed element, the derived list
\* published for it holds every other (well-formed) element of the collection.
C10_MalformedEntryIsDroppedAlone ==
    \A c \in Clients, k \in Kinds :
        Cardinality({i \in 1..YLength(ydoc[c], k) : Malformed(ToArray(ydoc[c], k)[i])}) = 1
            => synced[c][k] = ValidEntities(ydoc[c], k)

\* The ids of the drafts whose gesture was abandoned.
Abandoned == {trace[i] : i \in 1..Len(trace)}

\* C11: a pen or shape draft whose gesture was abandoned (the pointer left the
\* canvas and no gesture end came for it) is never in a shared collection,
\* whatever gesture starts, moves, ends and tool changes follow.
C11_AbandonedDraftIsDiscarded ==
    \A c \in Clients, k \in Kinds :
        \A i \in 1..Len(EntityIds(ydoc[c], k)) : EntityIds(ydoc[c], k)[i] \notin Abandoned

\* A gesture is in progress: a move that comes through has a tool handler.
Gesturing(c) == isDrawing[c] /\ Branch(Closure(c)) # "none"

\* C12: during a gesture, a pointer position that arrived inside the
\* rate-limit window is handed to the tool's move handler at a later tick
\* unless the gesture ends first: the last position of a burst is not lost.
C12_LastMoveIsHandled ==
    \A c \in Clients :
        (Gesturing(c) /\ pointerMoved[c]) ~> (~Gesturing(c) \/ ~pointerMoved[c])

\* C13: any two calls of a tool's move handler are at least 4 ms apart.
C13_HandledMovesAreSpaced ==
    \A i, j \in 1..Len(trace) : i < j => trace[j] - trace[i] >= MinSpacing

\* Two moves have reached the pen's move handler, the second as soon as the
\* spacing allows.
C13_Witness ==
    /\ Len(trace) = 2
    /\ trace[2] - trace[1] = MinSpacing

\* C14: shouldSyncLine is true exactly for a draft of two coordinate pairs or
\* more; a pen gesture that ends on a draft of one pair pushes nothing to the
\* lines, saves no history entry and clears the draft, and one that ends on a
\* longer draft pushes it.
C14_OnePointStrokeIsNotCommitted ==
    [][\A c \in Clients :
          MouseUpPen(c) =>
              /\ ShouldSyncLine(currentLine[c]) <=> currentLine[c].pairs >= 2
              /\ currentLine'[c] = Null
              /\ IF currentLine[c].pairs < 2
                 THEN ydoc'[c] = ydoc[c] /\ hist'[c] = hist[c] /\ synced'[c] = synced[c]
                 ELSE ToArray(ydoc'[c], "lines") =
                          Append(ToArray(ydoc[c], "lines"),
                                 Stringify(Entity(currentLine[c].id, currentLine[c].pairs,
                                                  "", FALSE)))]_vars

\* A pen gesture has started with a position and ended without a move: an id
\* was used for the draft, the draft is gone, no gesture is in progress and
\* the document is as empty as before.
C14_Witness ==
    /\ nextId[1] = 1 /\ penTracking[1].lastPosition
    /\ currentLine[1] = Null /\ ~isDrawing[1]
    /\ ydoc[1] = EmptyDoc
    /\ hist[1] = SaveState(EmptyHistory, EmptyLists)

\* C15: a pen gesture start without a pointer position creates no draft and
\* leaves isDrawing, the draft and the velocity tracking as they were; a pen
\* move without a pointer position leaves the draft and the tracking as they
\* were.
C15_NoPositionIsNoOp ==
    [][\A c \in Clients :
          /\ (tool[c] = "pen" /\ MouseDownDraw(c, FALSE)) =>
                 /\ isDrawing'[c] = isDrawing[c]
                 /\ currentLine'[c] = currentLine[c]
                 /\ penTracking'[c] = penTracking[c]
          /\ (tool[c] = "pen" /\ (MouseMove(c, FALSE) \/ ThrottleCall(c, FALSE))) =>
                 /\ currentLine'[c] = currentLine[c]
                 /\ penTracking'[c] = penTracking[c]
                 /\ PenMove(currentLine[c], FALSE) = currentLine[c]]_vars

\* The list without its element at (0-based) index i, and with that element
\* replaced by e.
Without(list, i) == SubSeq(list, 1, i) \o SubSeq(list, i + 2, Len(list))
With(list, i, e) == [list EXCEPT ![i + 1] = e]

\* C16: the completion of the edit of a newly created text that is still in
\* the texts collection removes it when the text handed over is empty or
\* blank, and replaces it at its index by the entity carrying the text and
\* isEditing = FALSE otherwise; either way no entity of the click with an
\* empty text is in the collection right after.
C16_CompletionFinalizesOrDiscards ==
    [][\A c \in Clients, newText \in Texts :
          LET texts == Collections(ydoc[c])["texts"]
              after == Collections(ydoc'[c])["texts"]
              i == FindIndex(texts, lastCreatedTextId[c])
          IN  (HandleTextEditNew(c, newText) /\ i # -1) =>
                  /\ after = IF Trim(newText) = "" THEN Without(texts, i)
                             ELSE With(texts, i, [texts[i + 1] EXCEPT
                                                    !.text = newText, !.isEditing = FALSE])
                  /\ \A j \in 1..Len(after) :
                        ~(after[j].id = lastCreatedTextId[c] /\ after[j].text = "")]_vars

\* A text created by a click has been completed with a word, after an image
\* was placed: the texts hold one entity, it carries the word and is not being
\* edited, and the reference to the new text is cleared.
C16_Witness ==
    /\ lastCreatedTextId[1] = Null
    /\ Len(synced[1]["images"]) = 1
    /\ Collections(ydoc[1])["texts"] = <<Entity(<<1, 0>>, 0, "t", FALSE)>>

\* The ids of the entities of the four lists of a snapshot.
SnapshotIds(snapshot) ==
    UNION {{snapshot[k][i].id : i \in 1..Len(snapshot[k])} : k \in Kinds}

\* C17: the first history entry of a client that joined a room holds every
\* entity the room's document held when it joined, however late the relay's
\* initial state is delivered.
C17_StartupSnapshotHoldsTheRoom ==
    hist[2].history # <<>> =>
        SnapshotIds(Collections(Founded.doc)) \subseteq SnapshotIds(hist[2].history[1])

\* C18: from any state of the history manager, after saveState(A) and
\* saveState(B) an undo() returns A, and a redo() after it returns B.
C18_UndoReturnsAThenRedoReturnsB ==
    \A c \in Clients :
        LET A == Fresh(hist[c])
            B == Marked(Mark(A) + 1)
            saved == SaveState(SaveState(hist[c], A), B)
        IN  /\ UndoResult(saved) = A
            /\ RedoResult(UndoMove(saved)) = B

\* Two states were saved into the empty manager, undo() was called and then
\* redo(), which returned the second state.
C18_Witness ==
    /\ hist[1] = [history |-> <<Marked(0), Marked(1)>>, currentIndex |-> 2]
    /\ trace = <<"redo", Marked(1)>>

\* C19: an undo() with no previous entry and a redo() with no next entry
\* return nothing and leave the stack and the cursor as they were, and the
\* controller then changes no shared collection, no derived list and sends
\* nothing.
C19_NothingToUndoOrRedoIsNoOp ==
    [][\A c \in Clients :
          /\ (Undo(c) /\ ~CanUndo(hist[c])) =>
                 /\ UndoResult(hist[c]) = Null
                 /\ hist' = hist /\ ydoc' = ydoc /\ synced' = synced /\ net' = net
          /\ (Redo(c) /\ ~CanRedo(hist[c])) =>
                 /\ RedoResult(hist[c]) = Null
                 /\ hist' = hist /\ ydoc' = ydoc /\ synced' = synced /\ net' = net]_vars

\* A stroke was committed; redo() was called at the top of the stack, then
\* undo() twice, the second time at the bottom.
C19_Witness ==
    /\ trace = <<"init", "commit", "redo", "undo", "undo">>
    /\ Len(hist[1].history) = 2 /\ hist[1].currentIndex = 1
    /\ synced[1]["lines"] = <<>>

\* C20: the stack never holds more than MaxHistorySize entries, and a push on
\* a full stack with the cursor at the top evicts exactly the oldest entry:
\* the other entries keep their order and the pushed state is the newest.
C20_HistoryIsBounded ==
    /\ [](\A c \in Clients : Len(hist[c].history) <= MaxHistorySize)
    /\ [][\A c \in Clients :
             (/\ HistorySaveState(c)
              /\ Len(hist[c].history) = MaxHistorySize
              /\ ~CanRedo(hist[c])) =>
                 /\ hist'[c].history = Append(Tail(hist[c].history), Fresh(hist[c]))
                 /\ hist'[c].currentIndex = MaxHistorySize]_vars

\* MaxHistorySize + 1 states were pushed into the empty manager: the first
\* one is gone and the stack holds the others, oldest first.
C20_Witness ==
    /\ hist[1].history = [i \in 1..MaxHistorySize |-> Marked(i)]
    /\ hist[1].currentIndex = MaxHistorySize

\* C21: after clearCanvas the four collections of the local replica and the
\* lists derived from them are empty, the pen and shape drafts and the
\* selection are reset, and the history holds no entry: canUndo() and
\* canRedo() are both false.
C21_ClearEmptiesDocumentAndHistory ==
    [][Len(trace') > Len(trace) =>
          /\ \A k \in Kinds : ToArray(ydoc'[1], k) = <<>> /\ synced'[1][k] = <<>>
          /\ currentLine'[1] = Null /\ currentShape'[1] = Null
          /\ selection'[1] = InitialSelection
          /\ Len(hist'[1].history) = 0
          /\ ~CanUndo(hist'[1]) /\ ~CanRedo(hist'[1])]_vars

\* The canvas was cleared once, after an entity had been committed (its item
\* is deleted) and with a shape draft under way.
C21_Witness ==
    /\ trace = <<"clear">>
    /\ Cardinality(ydoc[1].del) = 1 /\ nextId[1] = 2
    /\ isDrawing[1] /\ tool[1] = "rectangle" /\ currentShape[1] = Null
    /\ hist[1] = EmptyHistory

\* The entries of the stack h that are still in the stack h2 after a step:
\* those up to the cursor, moved down by one when a push evicted the oldest.
Kept(h, h2) ==
    \/ h2.history = <<>>
    \/ \E shift \in {0, 1} :
          /\ shift = 1 => Len(h.history) = MaxHistorySize
          /\ \A i \in (1 + shift)..h.currentIndex :
                 i - shift <= Len(h2.history) => h2.history[i - shift] = h.history[i]

C23_UpdateReplacesInPlace ==
    [][\A c \in Clients, k \in {"images", "shapes", "texts"}, id \in AllIds, g \in {0, 1} :
          HandleUpdate(c, k, id, g) =>
              LET old == Collections(ydoc[c])[k]
                  new == Collections(ydoc'[c])[k]
                  index == FindIndex(old, id)
              IN  IF index # -1
                  THEN /\ Len(new) = Len(old)
                       /\ new = [old EXCEPT ![index + 1] = [@ EXCEPT !.geom = g]]
                       /\ \A k2 \in Kinds \ {k} :
                              Collections(ydoc'[c])[k2] = Collections(ydoc[c])[k2]
                  ELSE ydoc'[c] = ydoc[c] /\ synced'[c] = synced[c] /\ hist'[c] = hist[c]]_vars


\* C24: decimation never drops the first or the last point of its input:
\* after every pen move the decimated sequence starts with the first and
\* ends with the last point of the interpolated sequence it was given, also
\* when the last point is closer than minDistance to the last point kept.
C24_DecimationKeepsEnds ==
    \A c \in Clients :
        stroke[c].interpolated # <<>> =>
            /\ stroke[c].optimized # <<>>
            /\ stroke[c].optimized[1] = stroke[c].interpolated[1]
            /\ Last(stroke[c].optimized) = Last(stroke[c].interpolated)

\* The last point of the input is closer than minDistance to the last point
\* kept before it, and points between them were dropped.
C24_Witness ==
    LET optimized == stroke[1].optimized
        interpolated == stroke[1].interpolated
    IN  /\ Len(optimized) >= 2 /\ Len(optimized) < Len(interpolated)
        /\ Distance(optimized[Len(optimized) - 1], Last(interpolated))
              < Frac(MinDistance[stroke[1].tier])
        /\ Last(optimized) = Last(interpolated)

\* The square of the distance between two points, measured exactly, in
\* units of 1 / Scale^2.
SquaredGap(a, b) == (b[1] - a[1]) * (b[1] - a[1]) + (b[2] - a[2]) * (b[2] - a[2])

\* C25: interpolation leaves no two consecutive output points farther apart
\* than the maxDistance of the tier (8, 10, 12): after every pen move, every
\* two neighbours of the interpolated sequence are at most maxDistance apart.
C25_InterpolationBoundsGaps ==
    \A c \in Clients :
        \A i \in 1..(Len(stroke[c].interpolated) - 1) :
            SquaredGap(stroke[c].interpolated[i], stroke[c].interpolated[i + 1])
                <= Num(MaxDistance[stroke[c].tier]) * Num(MaxDistance[stroke[c].tier])

\* Every move of the stroke so far was in the slow tier: the average of the
\* velocities up to each move is not above the medium threshold.
AllSlow(st) ==
    /\ Len(st.velocityHistory) = Len(st.raw) - 1
    /\ \A k \in 1..Len(st.velocityHistory) :
          Tier(FDiv(Sum(SubSeq(st.velocityHistory, 1, k)), Num(k))) = "low"

\* Some gap between two consecutive pointer positions exceeds the slow
\* tier's maxDistance.
HasWideGap(st) ==
    \E i \in 1..(Len(st.raw) - 1) :
        SquaredGap(st.raw[i], st.raw[i + 1])
            > Num(MaxDistance["low"]) * Num(MaxDistance["low"])

\* Every pointer event of the stroke came with a new position.
Moving(st) == \A i \in 1..(Len(st.raw) - 1) : st.raw[i] # st.raw[i + 1]

\* C26: a pen stroke of 5 pointer positions (the start and 4 moves, each to
\* a new position), every move in the slow tier, with some gap between
\* consecutive positions above 12, is committed with strictly more than 5
\* points.
C26_SlowStrokeGainsPoints ==
    \A c \in Clients :
        (/\ stroke[c].committed # <<>>
         /\ Len(stroke[c].raw) = RawPoints
         /\ Moving(stroke[c])
         /\ AllSlow(stroke[c])
         /\ HasWideGap(stroke[c]))
            => Len(stroke[c].committed) > RawPoints

\* C27: smoothing is applied to every sequence of at least 3 points: after
\* every pen move whose interpolated and decimated sequence has 3 or more
\* points, the draft holds the curve the tier fits to that sequence (the
\* Bezier rounding at high speed, the Catmull-Rom spline otherwise).
C27_ThreePointsAreSmoothed ==
    \A c \in Clients :
        (stroke[c].points # <<>> /\ Len(stroke[c].optimized) >= 3) =>
            stroke[c].points = Smooth(stroke[c].tier, stroke[c].optimized)

\* C28: in the Catmull-Rom smoothing the fourth control point of a window is
\* the point two after the current one whenever that point exists, whatever
\* its coordinates, 0 included: after every pen move of the medium and slow
\* tiers that smooths, the four points fitted around the i-th point of the
\* decimated sequence are the spline through its points i - 1 .. i + 2.
C28_FourthControlPointIsUsed ==
    \A c \in Clients :
        LET optimized == stroke[c].optimized
            points == stroke[c].points
        IN  (/\ points # <<>>
             /\ stroke[c].tier \in {"medium", "low"}
             /\ Len(optimized) > SmoothedAbove) =>
                \A i \in 2..(Len(optimized) - 2) : \A t \in 0..3 :
                    points[4 * (i - 2) + t + 2]
                        = SplinePoint(optimized[i - 1], optimized[i],
                                      optimized[i + 1], optimized[i + 2], t)

\* A pointer-down of the pen, a shape tool or the eraser, or a pointer-move
\* event or one of the throttle's deferred calls of handleMouseMove, at c.
GestureStep(c) ==
    \/ \E hasPos \in BOOLEAN : MouseDownDraw(c, hasPos)
    \/ MouseDownEraser(c)
    \/ \E hasPos \in BOOLEAN : MouseMove(c, hasPos)
    \/ \E hasPos \in BOOLEAN : ThrottleCall(c, hasPos)
    \/ \E tm \in stale[c], hasPos \in BOOLEAN : StaleCall(c, tm, hasPos)

\* C30: draft state is never replicated: the start of a pen, shape or eraser
\* gesture and every pointer move change no replica of the four shared
\* collections and send no update, and leave the derived lists, the history,
\* the selection and the tool as they were; only the drafts (and the
\* handlers' own bookkeeping) change.
C30_GestureStepsAreLocal ==
    [][\A c \in Clients :
         GestureStep(c) =>
             /\ ydoc' = ydoc /\ net' = net /\ unsent' = unsent
             /\ synced' = synced /\ hist' = hist
             /\ selection' = selection /\ tool' = tool]_vars

\* A pen gesture is in progress, the draft has grown by a move, and no
\* collection holds anything and no update has been sent.
C30_Witness ==
    /\ isDrawing[1] /\ tool[1] = "pen"
    /\ currentLine[1] # Null /\ currentLine[1].pairs = 2
    /\ lastMouseMoveTime[1] > 0
    /\ \A k \in Kinds : ToArray(ydoc[1], k) = <<>>
    /\ net = {} /\ unsent[1] = {}

\* C31: the window PenTool averages is the last five velocity samples of the
\* current gesture, oldest dropped first and none left over from an earlier
\* gesture, and the tier of a move is high when their average is above 0.8,
\* medium when it is above 0.3 and at most 0.8, low otherwise, which includes
\* the empty window.
WindowAverage(w) == IF w = <<>> THEN 0 ELSE FDiv(Sum(w), Num(Len(w)))

C31_TierFromRollingWindow ==
    LET st == stroke[1]
        w == st.velocityHistory
        n == Len(st.samples)
        avg == WindowAverage(w)
    IN  /\ Len(w) <= 5
        /\ w = SubSeq(st.samples, (IF n > 5 THEN n - 5 ELSE 0) + 1, n)
        /\ st.tier # "" =>
              /\ st.tier = "high" <=> avg > Frac(<<4, 5>>)
              /\ st.tier = "medium" <=> (avg > Frac(<<3, 10>>) /\ avg <= Frac(<<4, 5>>))
              /\ st.tier = "low" <=> avg <= Frac(<<3, 10>>)

\* A sixth sample has pushed the first one out, and the samples differ.
C31_Witness ==
    /\ Len(stroke[1].samples) > 5
    /\ stroke[1].samples[1] # stroke[1].samples[2]
    /\ stroke[1].tier = "medium"

\* C32: the Catmull-Rom fit depends on the tension: on at least 3 points that
\* are not evenly spaced along one line, the curve fitted with the medium
\* tier's 0.4 differs from the one fitted with the low tier's 0.2.
EvenlySpaced(points) ==
    \A i \in 2..(Len(points) - 1) :
        /\ points[i + 1][1] - points[i][1] = points[i][1] - points[i - 1][1]
        /\ points[i + 1][2] - points[i][2] = points[i][2] - points[i - 1][2]

C32_TensionShapesTheCurve ==
    LET st == stroke[1]
    IN  (st.tier \in {"medium", "low"} /\ Len(st.optimized) > SmoothedAbove
            /\ ~EvenlySpaced(st.optimized))
        => smoothPoints(st.optimized, Frac(Tension.medium))
             # smoothPoints(st.optimized, Frac(Tension.low))

\* C33: an undo or redo of client 1 takes back only what client 1 did: once
\* every update has been delivered everywhere, every entity client 2 placed
\* (client 2 removes nothing) is in the images of every replica.
C33_UndoSparesForeignEntities ==
    Quiescent =>
        \A u \in net :
            (u.from = 2 /\ u.item # Null) =>
                \A c \in Clients :
                    \E i \in 1..Len(EntityIds(ydoc[c], "images")) :
                        EntityIds(ydoc[c], "images")[i] = Parse(u.item.content).id

\* C34: the index at which an update deletes from a shared collection
\* designates, in the replica at that moment, the entity with the id the
\* update is for, also when the replica holds an element that the derived
\* list has filtered out.
C34_IndexDesignatesTheTarget ==
    [][\A c \in Clients, k \in {"images", "shapes", "texts"}, id \in AllIds, g \in {0, 1} :
          LET index == FindIndex(synced[c][k], id)
              array == ToArray(ydoc[c], k)
          IN  (HandleUpdate(c, k, id, g) /\ index # -1) =>
                  /\ index < Len(array)
                  /\ ~ParseThrows(array[index + 1])
                  /\ Truthy(Parse(array[index + 1]))
                  /\ Parse(array[index + 1]).id = id]_vars

\* C35: a processed pen move extends the draft of the gesture in progress,
\* never a draft an earlier render left in a deferred call of the throttle:
\* the draft carries the id its gesture start generated, and no two committed
\* strokes carry the same id.
C35_MoveExtendsTheLatestDraft ==
    /\ (isDrawing[1] /\ currentLine[1] # Null) => currentLine[1].id = <<1, nextId[1] - 1>>
    /\ \A i, j \in 1..Len(EntityIds(ydoc[1], "lines")) :
           i # j => EntityIds(ydoc[1], "lines")[i] # EntityIds(ydoc[1], "lines")[j]

\* C36: between two calls of the handlers, each of the four collections has
\* its sync handler attached exactly once, also after an undo() or redo() in
\* which an unobserve ended in its catch.
C36_ObserversAttachedOnce ==
    \A k \in Kinds : observers[1][k] = 1

\* C37: while no gesture is in progress (isDrawing is false) there is no
\* draft, neither a line nor a shape, and at no time are there two drafts.
C37_NoDraftWithoutGesture ==
    /\ ~isDrawing[1] => (currentLine[1] = Null /\ currentShape[1] = Null)
    /\ currentLine[1] = Null \/ currentShape[1] = Null

\* C38: once every update of the pans of the two clients has reached every
\* replica, the replicas hold the same view offset, and its x and y are the
\* pair one pan wrote (or the initial offset when nobody panned).
C38_ViewOffsetNeverTorn ==
    Quiescent =>
        /\ \A c \in Clients : ViewState(ydoc[c]) = ViewState(ydoc[1])
        /\ ViewState(ydoc[1]) \in StagePositions \cup {InitialStagePos}

C40_DecimationIsIdempotent ==
    LET optimized == stroke[1].optimized
        minDistance == Frac(MinDistance[stroke[1].tier])
    IN  optimized # <<>> =>
            /\ \A i \in 2..(Len(optimized) - 1) :
                   Distance(optimized[i - 1], optimized[i]) >= minDistance
            /\ optimizePoints(optimized, minDistance) = optimized

\* A decimation that dropped points, kept at least three, and whose last
\* point is closer than minDistance to the one before it.
C40_Witness ==
    LET optimized == stroke[1].optimized
        minDistance == Frac(MinDistance[stroke[1].tier])
    IN  /\ Len(optimized) >= 3
        /\ Len(optimized) < Len(stroke[1].interpolated)
        /\ Distance(optimized[Len(optimized) - 1], Last(optimized)) < minDistance
        /\ optimizePoints(optimized, minDistance) = optimized

====
